---- MODULE Spec2Model ----
(***************************************************************************)
(* Technical indicator and backtesting engine of LIU-Trade:                *)
(*   backend/app/services/technical.py        indicators, pattern detectors *)
(*   backend/app/services/signal_generator.py scan_buy_signals              *)
(*   backend/app/services/risk_manager.py     calculate_position_size       *)
(*   backend/app/services/backtester.py       Backtester.run and helpers    *)
(*                                                                         *)
(* Numbers.  Python floats are modelled as fixed-point integers.  A price  *)
(* or an amount of money is an integer number of 1/10000 of a currency     *)
(* unit, so that one cent is Cent = 100.  round(x, 2) is Round2 (round to  *)
(* the nearest cent, ties to even), int(x) is TruncDiv (towards zero).     *)
(* Percentages of the configuration are integers (2 means 0.02).  A date   *)
(* is a day number; a difference of dates is a number of calendar days.    *)
(* Python's None (and NaN in an indicator series) is the empty sequence    *)
(* None, a present value x is Some(x) = <<x>>.                             *)
(***************************************************************************)
EXTENDS Integers, Sequences, FiniteSets, TLC

\* ------------------------------------------------------------------------
\* Bounds of the model (not program constants)
\* ------------------------------------------------------------------------
\* longest sequence of bars after the fixed history of 120 bars
MaxTail == 4

\* the largest number of points of an equity curve given to _max_drawdown on
\* its own
MaxCurve == 4

\* the largest number of bars after the history in a sequence run is called on again
MaxRerun == 3

\* ------------------------------------------------------------------------
\* Arithmetic
\* ------------------------------------------------------------------------
Cent == 100

None == <<>>
Some(x) == <<x>>
IsNone(o) == o = <<>>
Val(o) == o[1]

Abs(x) == IF x < 0 THEN -x ELSE x
Max2(a, b) == IF a >= b THEN a ELSE b
Min2(a, b) == IF a <= b THEN a ELSE b
Max3(a, b, c) == Max2(a, Max2(b, c))
Min3(a, b, c) == Min2(a, Min2(b, c))

\* a / b rounded to the nearest integer, ties to even (b > 0)
RoundDiv(a, b) ==
    LET q == a \div b
        r == a % b
    IN  IF 2 * r < b THEN q
        ELSE IF 2 * r > b THEN q + 1
        ELSE IF q % 2 = 0 THEN q ELSE q + 1

\* int(a / b): truncation towards zero (b > 0)
TruncDiv(a, b) == IF a >= 0 THEN a \div b ELSE -((-a) \div b)

\* round(x, 2) of a value x = a / b, as a multiple of Cent
Round2Div(a, b) == RoundDiv(a, b * Cent) * Cent
Round2(x) == Round2Div(x, 1)

\* ------------------------------------------------------------------------
\* Python sequence access on 1-based TLA+ sequences
\* ------------------------------------------------------------------------
\* s[start:stop] of Python (negative indices count from the end)
PySlice(s, start, stop) ==
    LET n == Len(s)
        norm(k) == IF k < 0 THEN Max2(0, n + k) ELSE Min2(k, n)
        a == norm(start)
        b == norm(stop)
    IN  IF b <= a THEN <<>> ELSE SubSeq(s, a + 1, b)

\* s.iloc[-k:] and s.tail(k)
LastN(s, k) == PySlice(s, -k, Len(s))

\* sum of s[lo..hi], by halves
RECURSIVE SumRange(_, _, _)
SumRange(s, lo, hi) ==
    IF hi < lo THEN 0
    ELSE IF hi = lo THEN s[lo]
    ELSE LET mid == (lo + hi) \div 2
         IN  SumRange(s, lo, mid) + SumRange(s, mid + 1, hi)

SumSeq(s) == SumRange(s, 1, Len(s))

\* minimum of s[lo..hi] (lo <= hi), by halves
RECURSIVE MinRange(_, _, _)
MinRange(s, lo, hi) ==
    IF hi = lo THEN s[lo]
    ELSE LET mid == (lo + hi) \div 2
             a == MinRange(s, lo, mid)
             b == MinRange(s, mid + 1, hi)
         IN  IF a <= b THEN a ELSE b

Column(df, f) == [k \in 1..Len(df) |-> df[k][f]]

\* ------------------------------------------------------------------------
\* technical.py: indicators
\* ------------------------------------------------------------------------
\* prices.rolling(window=period).mean(): entry k (1-based) is NaN for
\* k < period, else the mean of the period values ending at k
calc_sma(prices, period) ==
    [k \in 1..Len(prices) |->
        IF k < period THEN None
        ELSE Some(RoundDiv(SumRange(prices, k - period + 1, k), period))]

\* prices.ewm(span=period, adjust=False).mean(), carried with two more
\* decimal digits than a price: y[1] = x[1], y[k] = a x[k] + (1 - a) y[k-1]
\* with a = 2 / (period + 1).  EwmSteps applies the recursion to the entries
\* lo..hi starting from the value y; EwmFrom does so in runs of 16 entries,
\* each run evaluated before the next one starts.
RECURSIVE EwmSteps(_, _, _, _, _)
EwmSteps(prices, period, y, lo, hi) ==
    IF hi < lo THEN y
    ELSE RoundDiv(2 * prices[hi] * 100 + (period - 1) * EwmSteps(prices, period, y, lo, hi - 1),
                  period + 1)

RECURSIVE EwmFrom(_, _, _, _, _)
EwmFrom(prices, period, y, lo, k) ==
    IF lo > k THEN y
    ELSE LET hi == Min2(lo + 15, k)
             y2 == EwmSteps(prices, period, y, lo, hi)
         IN  IF y2 = y2 THEN EwmFrom(prices, period, y2, hi + 1, k) ELSE y2

EwmFine(prices, period, k) == EwmFrom(prices, period, prices[1] * 100, 2, k)

calc_ema(prices, period) ==
    [k \in 1..Len(prices) |-> Some(RoundDiv(EwmFine(prices, period, k), 100))]

\* prices.shift(period): entry k is prices[k - period], NaN for k <= period
calc_deduction_prices(prices, period) ==
    [k \in 1..Len(prices) |-> IF k <= period THEN None ELSE Some(prices[k - period])]

\* the rolling mean carried exactly, as the sum of its window (period times
\* the mean): NaN for k < period
RollingSum(prices, period) ==
    [k \in 1..Len(prices) |->
        IF k < period THEN None ELSE Some(SumRange(prices, k - period + 1, k))]

\* ma_series.diff(lookback) / lookback: entry k is NaN when the average is
\* NaN at k or at k - lookback.  The series is given by its rolling sums,
\* and the slope is carried exactly, as the difference of the sums: it is
\* the numerator of the slope over the denominator period * lookback.
calc_slope(sums, lookback) ==
    [k \in 1..Len(sums) |->
        IF k <= lookback THEN None
        ELSE IF IsNone(sums[k]) \/ IsNone(sums[k - lookback]) THEN None
        ELSE Some(Val(sums[k]) - Val(sums[k - lookback]))]

\* classify_slope of the slope num / den (den > 0), a price being in 1/10000
classify_slope(num, den) ==
    IF Abs(num) < 1000 * den THEN "FLAT"
    ELSE IF num > 0
         THEN IF Abs(num) < 5000 * den THEN "GENTLE_UP"
              ELSE IF Abs(num) < 20000 * den THEN "STRONG_UP"
              ELSE "EXTREME_UP"
    ELSE IF Abs(num) < 5000 * den THEN "GENTLE_DOWN"
    ELSE IF Abs(num) < 20000 * den THEN "STRONG_DOWN"
    ELSE "EXTREME_DOWN"

\* round(s, 4) if s else None, and classify_slope(s) if s else None, for the
\* slope s = float(slope.iloc[i]) if pd.notna(slope.iloc[i]) else None: a
\* slope of 0.0 is as false as None
SlopeIfAny(slope, den) ==
    IF IsNone(slope) \/ Val(slope) = 0 THEN None ELSE Some(RoundDiv(Val(slope), den))

PhaseIfAny(slope, den) ==
    IF IsNone(slope) \/ Val(slope) = 0 THEN None ELSE Some(classify_slope(Val(slope), den))

\* the SlopeData of every bar; the slope of the EMA(120) is left out
SlopesOf(dates, slope_20, slope_60) ==
    [k \in 1..Len(dates) |->
        [date |-> dates[k],
         ma20_slope |-> SlopeIfAny(slope_20[k], 20 * 5),
         ma60_slope |-> SlopeIfAny(slope_60[k], 60 * 5),
         ma20_phase |-> PhaseIfAny(slope_20[k], 20 * 5),
         ma60_phase |-> PhaseIfAny(slope_60[k], 60 * 5)]]

\* ------------------------------------------------------------------------
\* technical.py: predict_ma_turn
\* ------------------------------------------------------------------------
\* MATurnPrediction(period=period, will_turn_up=False)
NoTurn(period) ==
    [period |-> period, will_turn_up |-> FALSE, required_price |-> None,
     turn_date_start |-> None, turn_date_end |-> None, confidence |-> 0]

\* round(confidence, 2) in hundredths: min(1.0, gap_pct * 5) when the last
\* price is above a non-zero required price, else 0.0
TurnConfidence(last_price, required_price) ==
    IF required_price # 0 /\ last_price > required_price
    THEN IF (last_price - required_price) * 5 >= required_price THEN 100
         ELSE RoundDiv((last_price - required_price) * 500, required_price)
    ELSE 0

\* the prediction from the minimum of the deduction prices; first_label and
\* last_label are the 0-based index labels of the first and last row of the slice
TurnPrediction(period, n, last_price, last_date, min_deduction, first_label, last_label) ==
    [period |-> period,
     will_turn_up |-> last_price > min_deduction,
     required_price |-> IF min_deduction # 0 THEN Some(Round2(min_deduction)) ELSE None,
     turn_date_start |-> IF last_price > min_deduction
                         THEN Some(last_date + Max2(0, n - 1 - last_label)) ELSE None,
     turn_date_end |-> IF last_price > min_deduction
                       THEN Some(last_date + Max2(0, n - 1 - first_label)) ELSE None,
     confidence |-> TurnConfidence(last_price, min_deduction)]

\* deduction_prices is close.iloc[-period : -period + future_days]
TurnFromSlice(period, n, last_bar, deduction_prices) ==
    IF Len(deduction_prices) = 0 THEN NoTurn(period)
    ELSE TurnPrediction(period, n, last_bar.close, last_bar.date,
                        MinRange(deduction_prices, 1, Len(deduction_prices)),
                        Max2(0, n - period),
                        Max2(0, n - period) + Len(deduction_prices) - 1)

predict_ma_turn(df, period, future_days) ==
    IF Len(df) < period + future_days THEN NoTurn(period)
    ELSE TurnFromSlice(period, Len(df), df[Len(df)],
                       PySlice(Column(df, "close"), -period, -period + future_days))

\* ------------------------------------------------------------------------
\* technical.py: detect_2b
\* ------------------------------------------------------------------------
\* 1-based position of the first occurrence of the value m in s (idxmin)
FirstPos(s, m) == CHOOSE j \in 1..Len(s) : s[j] = m /\ \A h \in 1..(j - 1) : s[h] # m

FirstMinPos(s) == FirstPos(s, MinRange(s, 1, Len(s)))

\* 0-based positions i in range(2, len(pre_min) - 2) of the local lows
LocalLows(pre_min) ==
    {i \in 2..(Len(pre_min) - 3) :
        /\ pre_min[i + 1] < pre_min[i]
        /\ pre_min[i + 1] < pre_min[i - 1]
        /\ pre_min[i + 1] < pre_min[i + 2]
        /\ pre_min[i + 1] < pre_min[i + 3]}

MaxOf(S) == CHOOSE x \in S : \A y \in S : y <= x
MinOf(S) == CHOOSE x \in S : \A y \in S : x <= y

\* the positions (1-based) of the closes of post_b above point A
Recovered(post_b, point_a_price) == {j \in 1..Len(post_b) : post_b[j] > point_a_price}

\* the structure that is substantive on a single close above A
TwoBSignal_single_close(close, recent, recent_dates, min_pos, point_a_pos, post_b, recovered) ==
    IF Cardinality(recovered) = 0 THEN None
    ELSE Some([point_a_date |-> recent_dates[point_a_pos + 1],
               point_a_price |-> Round2(recent[point_a_pos + 1]),
               point_b_date |-> recent_dates[min_pos + 1],
               point_b_price |-> Round2(recent[min_pos + 1]),
               recovery_price |-> Round2(post_b[MinOf(recovered)]),
               is_substantive |-> Cardinality(recovered) >= 1,
               deduction_validated |->
                   /\ ~IsNone(calc_deduction_prices(close, 20)[Len(close)])
                   /\ close[Len(close)] > Val(calc_deduction_prices(close, 20)[Len(close)])])

\* the structure once the closes after B above A are known
TwoBSignal(close, recent, recent_dates, min_pos, point_a_pos, post_b, recovered) ==
    IF Cardinality(recovered) = 0 THEN None
    ELSE Some([point_a_date |-> recent_dates[point_a_pos + 1],
               point_a_price |-> Round2(recent[point_a_pos + 1]),
               point_b_date |-> recent_dates[min_pos + 1],
               point_b_price |-> Round2(recent[min_pos + 1]),
               recovery_price |-> Round2(post_b[MinOf(recovered)]),
               is_substantive |-> Cardinality(recovered) >= 2,
               deduction_validated |->
                   /\ ~IsNone(calc_deduction_prices(close, 20)[Len(close)])
                   /\ close[Len(close)] > Val(calc_deduction_prices(close, 20)[Len(close)])])

\* point A at the 0-based position point_a_pos of recent, B at min_pos
TwoBRecovery(close, recent, recent_dates, min_pos, point_a_pos, post_b) ==
    IF recent[min_pos + 1] >= recent[point_a_pos + 1] THEN None
    ELSE IF post_b = <<>> THEN None
    ELSE TwoBSignal(close, recent, recent_dates, min_pos, point_a_pos, post_b,
                    Recovered(post_b, recent[point_a_pos + 1]))

\* the local lows of pre_min = recent.iloc[:min_pos]; point A is the last one
TwoBPointA(close, recent, recent_dates, min_pos, local_lows) ==
    IF local_lows = {} THEN None
    ELSE TwoBRecovery(close, recent, recent_dates, min_pos, MaxOf(local_lows),
                      PySlice(recent, min_pos + 1, Len(recent)))

\* the structure looked for wherever the minimum lies in the window
TwoBAtMin_any_position(close, recent, recent_dates, lookback, min_pos) ==
    IF PySlice(recent, 0, min_pos) = <<>> THEN None
    ELSE TwoBPointA(close, recent, recent_dates, min_pos,
                    LocalLows(PySlice(recent, 0, min_pos)))

\* min_pos is the 0-based position of the global minimum of recent
TwoBAtMin(close, recent, recent_dates, lookback, min_pos) ==
    IF min_pos < 5 \/ min_pos > lookback - 3 THEN None
    ELSE IF PySlice(recent, 0, min_pos) = <<>> THEN None
    ELSE TwoBPointA(close, recent, recent_dates, min_pos,
                    LocalLows(PySlice(recent, 0, min_pos)))

TwoBInWindow(close, recent, recent_dates, lookback) ==
    TwoBAtMin(close, recent, recent_dates, lookback, FirstMinPos(recent) - 1)

detect_2b(df) ==
    IF Len(df) < 30 THEN None
    ELSE TwoBInWindow(Column(df, "close"),
                      LastN(Column(df, "close"), Min2(60, Len(df) - 1)),
                      LastN(Column(df, "date"), Min2(60, Len(df) - 1)),
                      Min2(60, Len(df) - 1))

\* ------------------------------------------------------------------------
\* technical.py: detect_ma_concentration
\* ------------------------------------------------------------------------
\* lo, hi and total are the minimum, the maximum and the sum of the three
\* averages; vol5 and vol60 the sums of the last n5 and n60 volumes
MAConcentration(lo, hi, total, last_close, vol5, n5, vol60, n60) ==
    \* spread_ratio = spread / avg with avg = total / 3, 999 when avg <= 0;
    \* no detection when spread_ratio > 0.05
    IF (IF total > 0 THEN (hi - lo) * 60 > total ELSE TRUE) THEN None
    ELSE Some([level |-> IF (hi - lo) * 150 < total THEN "full" ELSE "partial",
               price_range_low |-> Round2(lo),
               price_range_high |-> Round2(hi),
               spread_ratio |-> RoundDiv((hi - lo) * 30000, total),
               timeframe |-> "daily",
               breakout_detected |-> last_close * 100 > hi * 101,
               \* mean(last 5) > mean(last 60) * 1.5, False when mean(last 60) <= 0
               volume_confirmed |-> IF vol60 > 0 THEN vol5 * n60 * 2 > vol60 * 3 * n5
                                    ELSE FALSE])

ConcentrationOf(last_ma20, last_ma60, last_ema120, last_close, recent5, recent60) ==
    IF IsNone(last_ma20) \/ IsNone(last_ma60) \/ IsNone(last_ema120) THEN None
    ELSE MAConcentration(Min3(Val(last_ma20), Val(last_ma60), Val(last_ema120)),
                         Max3(Val(last_ma20), Val(last_ma60), Val(last_ema120)),
                         Val(last_ma20) + Val(last_ma60) + Val(last_ema120),
                         last_close,
                         SumSeq(recent5), Len(recent5), SumSeq(recent60), Len(recent60))

detect_ma_concentration(df) ==
    IF Len(df) < 120 THEN None
    ELSE ConcentrationOf(calc_sma(Column(df, "close"), 20)[Len(df)],
                         calc_sma(Column(df, "close"), 60)[Len(df)],
                         calc_ema(Column(df, "close"), 120)[Len(df)],
                         df[Len(df)].close,
                         LastN(Column(df, "volume"), 5),
                         LastN(Column(df, "volume"), 60))

\* ------------------------------------------------------------------------
\* signal_generator.py: scan_buy_signals
\* ------------------------------------------------------------------------
\* round(reward / risk, 2) if risk > 0 else 0, in hundredths
RiskReward(reward, risk) == IF risk > 0 THEN RoundDiv(reward * 100, risk) ELSE 0

BuySignalResponse(type, advice, last_price, stop_loss, target) ==
    [signal_type |-> type,
     position_advice |-> advice,
     entry_price |-> Round2(last_price),
     stop_loss |-> stop_loss,
     target_price |-> target,
     risk_reward_ratio |-> RiskReward(target - last_price, last_price - stop_loss)]

\* the 2B branch: the signals it appends
TwoBSignals(last_price, last_ma60, two_b) ==
    IF ~IsNone(two_b) /\ Val(two_b).is_substantive
    THEN LET stop_loss == Round2Div(Val(two_b).point_b_price * 98, 100)
             target == IF ~IsNone(last_ma60) /\ Val(last_ma60) # 0
                       THEN Round2(Val(last_ma60))
                       ELSE Round2Div(last_price * 115, 100)
         IN  IF /\ RiskReward(target - last_price, last_price - stop_loss) >= 200
                /\ (last_price - stop_loss) * 10 < last_price
             THEN <<BuySignalResponse("2B_STRUCTURE", "PROBE", last_price, stop_loss, target)>>
             ELSE <<>>
    ELSE <<>>

\* the MA concentration branch without the test of rr
ConcentrationSignals_ungated(last_price, concentration) ==
    IF ~IsNone(concentration) /\ Val(concentration).breakout_detected
       /\ Val(concentration).volume_confirmed
    THEN <<BuySignalResponse("MA_CONCENTRATION_BREAKOUT", "CONFIRM", last_price,
                             Round2Div(Val(concentration).price_range_low * 98, 100),
                             Round2Div(last_price * 120, 100))>>
    ELSE <<>>

\* the MA concentration branch
ConcentrationSignals(last_price, concentration) ==
    IF ~IsNone(concentration) /\ Val(concentration).breakout_detected
       /\ Val(concentration).volume_confirmed
    THEN LET stop_loss == Round2Div(Val(concentration).price_range_low * 98, 100)
             target == Round2Div(last_price * 120, 100)
         IN  IF RiskReward(target - last_price, last_price - stop_loss) >= 200
             THEN <<BuySignalResponse("MA_CONCENTRATION_BREAKOUT", "CONFIRM", last_price,
                                      stop_loss, target)>>
             ELSE <<>>
    ELSE <<>>

\* the MA20 turn branch
TurnUpSignals(last_price, last_ma60, ma20_turn) ==
    IF ma20_turn.will_turn_up /\ ma20_turn.confidence > 50
    THEN LET stop_loss == Round2Div(last_price * 95, 100)
             target == IF ~IsNone(last_ma60) /\ Val(last_ma60) # 0
                          /\ Val(last_ma60) > last_price
                       THEN Round2(Val(last_ma60))
                       ELSE Round2Div(last_price * 112, 100)
         IN  IF RiskReward(target - last_price, last_price - stop_loss) >= 200
             THEN <<BuySignalResponse("MA_TURN_UP", "PROBE", last_price, stop_loss, target)>>
             ELSE <<>>
    ELSE <<>>

\* the three branches in the order of the code; predict_ma_turn(df, 20) takes
\* the default future_days = 20
ScanBranches(df, last_price, last_ma60) ==
    TwoBSignals(last_price, last_ma60, detect_2b(df))
    \o ConcentrationSignals(last_price, detect_ma_concentration(df))
    \o TurnUpSignals(last_price, last_ma60, predict_ma_turn(df, 20, 20))

\* scan_buy_signals without the test on the number of bars
scan_buy_signals_unguarded(df) ==
    IF df = <<>> THEN <<>>
    ELSE ScanBranches(df, df[Len(df)].close, calc_sma(Column(df, "close"), 60)[Len(df)])

scan_buy_signals(df) ==
    IF df = <<>> \/ Len(df) < 120 THEN <<>>
    ELSE ScanBranches(df, df[Len(df)].close, calc_sma(Column(df, "close"), 60)[Len(df)])

\* ------------------------------------------------------------------------
\* risk_manager.py: calculate_position_size
\* ------------------------------------------------------------------------
\* calculate_position_size with round(risk_amount / risk_per_share) for int(...)
calculate_position_size_rounded(account_value, entry_price, stop_loss, risk_per_trade) ==
    LET risk_per_share == Abs(entry_price - stop_loss)
        shares == IF risk_per_share <= 0 THEN 0
                  ELSE RoundDiv(account_value * risk_per_trade, 100 * risk_per_share)
    IN  IF risk_per_share <= 0
        THEN [shares |-> 0, risk_amount |-> 0, total_cost |-> 0]
        ELSE [shares |-> shares,
              risk_amount |-> Round2Div(account_value * risk_per_trade, 100),
              total_cost |-> Round2(shares * entry_price)]

\* risk_per_trade is a percentage: 2 stands for 0.02
calculate_position_size(account_value, entry_price, stop_loss, risk_per_trade) ==
    LET risk_per_share == Abs(entry_price - stop_loss)
        \* int(risk_amount / risk_per_share), risk_amount = account_value * risk_per_trade
        shares == TruncDiv(account_value * risk_per_trade, 100 * risk_per_share)
    IN  IF risk_per_share <= 0
        THEN [shares |-> 0, risk_amount |-> 0, total_cost |-> 0]
        ELSE [shares |-> shares,
              risk_amount |-> Round2Div(account_value * risk_per_trade, 100),
              total_cost |-> Round2(shares * entry_price)]

\* ------------------------------------------------------------------------
\* backtester.py: exit check, close, entry
\* ------------------------------------------------------------------------
\* the truth value Python gives an optional number: neither None nor 0
Truthy(o) == ~IsNone(o) /\ Val(o) # 0

\* round(pnl_pct * 100, 2), in hundredths of a percent
PnlPct(entry_price, exit_price) ==
    IF entry_price # 0 THEN RoundDiv((exit_price - entry_price) * 10000, entry_price) ELSE 0

\* Backtester._close
Close(pos, exit_date, exit_price, reason, holding) ==
    [signal_type |-> pos.signal_type,
     entry_date |-> pos.entry_date,
     entry_price |-> pos.entry_price,
     exit_date |-> exit_date,
     exit_price |-> Round2(exit_price),
     exit_reason |-> reason,
     shares |-> pos.shares,
     stop_loss |-> pos.stop_loss,
     target_price |-> pos.target_price,
     pnl |-> Round2(pos.shares * (exit_price - pos.entry_price)),
     pnl_pct |-> PnlPct(pos.entry_price, exit_price),
     holding_days |-> holding]

\* _check_exit with the stop-loss exit filled at the low of the bar
check_exit_stop_at_low(cfg, pos, bar) ==
    LET holding == bar.date - pos.entry_date
    IN  IF bar.low <= pos.stop_loss
        THEN Some(Close(pos, bar.date, bar.low, "STOP_LOSS", holding))
        ELSE IF ~IsNone(pos.trailing_stop) /\ bar.low <= Val(pos.trailing_stop)
        THEN Some(Close(pos, bar.date, Val(pos.trailing_stop), "TRAILING_STOP", holding))
        ELSE IF bar.high >= pos.target_price
        THEN Some(Close(pos, bar.date, pos.target_price, "TARGET_HIT", holding))
        ELSE IF holding >= cfg.max_holding_days
        THEN Some(Close(pos, bar.date, bar.close, "TIME_EXIT", holding))
        ELSE None

\* _check_exit with the target tested before the stops
check_exit_target_first(cfg, pos, bar) ==
    LET holding == bar.date - pos.entry_date
    IN  IF bar.high >= pos.target_price
        THEN Some(Close(pos, bar.date, pos.target_price, "TARGET_HIT", holding))
        ELSE IF bar.low <= pos.stop_loss
        THEN Some(Close(pos, bar.date, pos.stop_loss, "STOP_LOSS", holding))
        ELSE IF ~IsNone(pos.trailing_stop) /\ bar.low <= Val(pos.trailing_stop)
        THEN Some(Close(pos, bar.date, Val(pos.trailing_stop), "TRAILING_STOP", holding))
        ELSE IF holding >= cfg.max_holding_days
        THEN Some(Close(pos, bar.date, bar.close, "TIME_EXIT", holding))
        ELSE None

\* _check_exit with the time exit at the open of the bar
check_exit_time_at_open(cfg, pos, bar) ==
    LET holding == bar.date - pos.entry_date
    IN  IF bar.low <= pos.stop_loss
        THEN Some(Close(pos, bar.date, pos.stop_loss, "STOP_LOSS", holding))
        ELSE IF ~IsNone(pos.trailing_stop) /\ bar.low <= Val(pos.trailing_stop)
        THEN Some(Close(pos, bar.date, Val(pos.trailing_stop), "TRAILING_STOP", holding))
        ELSE IF bar.high >= pos.target_price
        THEN Some(Close(pos, bar.date, pos.target_price, "TARGET_HIT", holding))
        ELSE IF holding >= cfg.max_holding_days
        THEN Some(Close(pos, bar.date, bar.open, "TIME_EXIT", holding))
        ELSE None

\* Backtester._check_exit
check_exit(cfg, pos, bar) ==
    LET holding == bar.date - pos.entry_date
    IN  IF bar.low <= pos.stop_loss
        THEN Some(Close(pos, bar.date, pos.stop_loss, "STOP_LOSS", holding))
        ELSE IF ~IsNone(pos.trailing_stop) /\ bar.low <= Val(pos.trailing_stop)
        THEN Some(Close(pos, bar.date, Val(pos.trailing_stop), "TRAILING_STOP", holding))
        ELSE IF bar.high >= pos.target_price
        THEN Some(Close(pos, bar.date, pos.target_price, "TARGET_HIT", holding))
        ELSE IF holding >= cfg.max_holding_days
        THEN Some(Close(pos, bar.date, bar.close, "TIME_EXIT", holding))
        ELSE None

\* the branch with highest_since_entry set to the high of every bar
hold_position_last_high(cfg, pos, bar) ==
    LET highest == bar.high
        new_trail == (highest * (100 - Val(cfg.trailing_stop_pct))) \div 100
    IN  [pos EXCEPT
            !.highest_since_entry = highest,
            !.trailing_stop =
                IF Truthy(cfg.trailing_stop_pct) /\ ~IsNone(pos.trailing_stop)
                THEN Some(new_trail)
                ELSE pos.trailing_stop]

\* Backtester.run, the branch taken when no exit matched: highest_since_entry
\* and the trailing stop of the open position
hold_position(cfg, pos, bar) ==
    LET highest == IF bar.high > pos.highest_since_entry THEN bar.high
                   ELSE pos.highest_since_entry
        new_trail == (highest * (100 - Val(cfg.trailing_stop_pct))) \div 100
    IN  [pos EXCEPT
            !.highest_since_entry = highest,
            !.trailing_stop =
                IF Truthy(cfg.trailing_stop_pct) /\ ~IsNone(pos.trailing_stop)
                   /\ new_trail > Val(pos.trailing_stop)
                THEN Some(new_trail)
                ELSE pos.trailing_stop]

\* the true ranges of the rows 1 .. len - 1 of window.tail(14)
TrueRanges(window) ==
    LET rows == LastN(window, 14)
    IN  [j \in 1..(Len(rows) - 1) |->
            LET h == rows[j + 1].high
                l == rows[j + 1].low
                pc == rows[j].close
            IN  Max3(h - l, Abs(h - pc), Abs(l - pc))]

\* the trend filter of _try_entry: TRUE when the entry is rejected
TrendRejects(window) ==
    LET ma60 == calc_sma(Column(window, "close"), 60)
        n == Len(window)
    IN  /\ n >= 10
        /\ ~IsNone(ma60[n])
        /\ ~IsNone(ma60[n - 9])
        /\ Val(ma60[n]) < Val(ma60[n - 9])

\* the stop of the position opened from sig
EntryStop(cfg, window, sig) ==
    LET tr_vals == TrueRanges(window)
    IN  IF Truthy(cfg.stop_loss_atr_mult) /\ Len(tr_vals) > 0
        THEN Round2Div(sig.entry_price * Len(tr_vals)
                         - SumSeq(tr_vals) * Val(cfg.stop_loss_atr_mult),
                       Len(tr_vals))
        ELSE sig.stop_loss

\* the position opened whatever the size and the cost
OpenPosition_unchecked(cfg, capital, bar_date, sig, stop_loss, pos_result) ==
    Some([signal_type |-> sig.signal_type,
          entry_date |-> bar_date,
          entry_price |-> sig.entry_price,
          shares |-> pos_result.shares,
          stop_loss |-> stop_loss,
          target_price |-> sig.target_price,
          trailing_stop |->
              IF Truthy(cfg.trailing_stop_pct)
              THEN Some((sig.entry_price * (100 - Val(cfg.trailing_stop_pct))) \div 100)
              ELSE None,
          highest_since_entry |-> sig.entry_price])

\* the _OpenPosition built from the signal sig, its stop and its size
OpenPosition(cfg, capital, bar_date, sig, stop_loss, pos_result) ==
    IF pos_result.shares <= 0 \/ pos_result.total_cost > capital THEN None
    ELSE Some([signal_type |-> sig.signal_type,
               entry_date |-> bar_date,
               entry_price |-> sig.entry_price,
               shares |-> pos_result.shares,
               stop_loss |-> stop_loss,
               target_price |-> sig.target_price,
               trailing_stop |->
                   IF Truthy(cfg.trailing_stop_pct)
                   THEN Some((sig.entry_price * (100 - Val(cfg.trailing_stop_pct))) \div 100)
                   ELSE None,
               highest_since_entry |-> sig.entry_price])

\* the position sized from the signal sig and its stop
SizedEntry(cfg, capital, bar_date, sig, stop_loss) ==
    OpenPosition(cfg, capital, bar_date, sig, stop_loss,
                 calculate_position_size(capital, sig.entry_price, stop_loss,
                                         cfg.risk_per_trade))

\* signals is the list left by the signal type filter: sig = signals[0]
EntryFromSignals(cfg, window, capital, bar_date, signals) ==
    IF signals = <<>> THEN None
    ELSE SizedEntry(cfg, capital, bar_date, signals[1], EntryStop(cfg, window, signals[1]))

\* the filter with its test inverted: the signals of the other types are kept
FilterSignals_excluding(cfg, signals) ==
    IF ~IsNone(cfg.signal_types) /\ Val(cfg.signal_types) # {}
    THEN SelectSeq(signals, LAMBDA g : g.signal_type \notin Val(cfg.signal_types))
    ELSE signals

\* if self.config.signal_types: keep the signals of these types
FilterSignals(cfg, signals) ==
    IF ~IsNone(cfg.signal_types) /\ Val(cfg.signal_types) # {}
    THEN SelectSeq(signals, LAMBDA g : g.signal_type \in Val(cfg.signal_types))
    ELSE signals

\* _try_entry without the filter on the signal types
EntryInWindow_unfiltered(cfg, window, capital, bar_date) ==
    IF cfg.trend_filter /\ TrendRejects(window) THEN None
    ELSE EntryFromSignals(cfg, window, capital, bar_date, scan_buy_signals(window))

\* _try_entry on window = df.iloc[: idx + 1]
EntryInWindow(cfg, window, capital, bar_date) ==
    IF cfg.trend_filter /\ TrendRejects(window) THEN None
    ELSE EntryFromSignals(cfg, window, capital, bar_date,
                          FilterSignals(cfg, scan_buy_signals(window)))

\* _try_entry with a window that takes in the bar after the current one
try_entry_lookahead(cfg, df, idx, capital) ==
    EntryInWindow(cfg, PySlice(df, 0, idx + 2), capital, df[idx + 1].date)

\* Backtester._try_entry; idx is the 0-based index of the current bar
try_entry(cfg, df, idx, capital) ==
    EntryInWindow(cfg, PySlice(df, 0, idx + 1), capital, df[idx + 1].date)

\* ------------------------------------------------------------------------
\* backtester.py: statistics
\* ------------------------------------------------------------------------
\* BacktestStats(): the defaults of the dataclass
BacktestStats ==
    [total_return |-> 0, total_return_pct |-> 0, total_pnl |-> 0, trade_count |-> 0,
     win_count |-> 0, win_rate |-> 0, avg_win |-> 0, avg_loss |-> 0,
     avg_win_pct |-> 0, avg_loss_pct |-> 0, profit_factor |-> Some(0),
     max_drawdown |-> 0, max_drawdown_pct |-> 0, by_signal_type |-> <<>>]

\* the loop of Backtester._max_drawdown from point k on; the result is
\* <<max_dd, peak at the point of max_dd>>
RECURSIVE DrawdownLoop(_, _, _, _, _)
DrawdownLoop(curve, k, peak, max_dd, worst_peak) ==
    IF k > Len(curve) THEN <<max_dd, worst_peak>>
    ELSE LET pk == IF curve[k].equity > peak THEN curve[k].equity ELSE peak
             dd == pk - curve[k].equity
         IN  IF dd > max_dd THEN DrawdownLoop(curve, k + 1, pk, dd, pk)
             ELSE DrawdownLoop(curve, k + 1, pk, max_dd, worst_peak)

\* _max_drawdown with the percentage taken of the highest equity of the curve
max_drawdown_highest_peak(curve) ==
    IF curve = <<>> THEN <<0, 0>>
    ELSE LET r == DrawdownLoop(curve, 1, curve[1].equity, 0, 0)
             highest == CHOOSE e \in {curve[k].equity : k \in 1..Len(curve)} :
                            \A k \in 1..Len(curve) : curve[k].equity <= e
         IN  <<r[1], IF r[1] > 0 /\ highest > 0
                     THEN RoundDiv((r[1] \div Cent) * 10000, highest \div Cent)
                     ELSE 0>>

\* Backtester._max_drawdown: <<max_dd, round(max_dd_pct, 2) in hundredths of a percent>>
max_drawdown(curve) ==
    IF curve = <<>> THEN <<0, 0>>
    ELSE LET r == DrawdownLoop(curve, 1, curve[1].equity, 0, 0)
         IN  <<r[1], IF r[2] > 0 THEN RoundDiv((r[1] \div Cent) * 10000, r[2] \div Cent)
                     ELSE 0>>

Wins(trades) == SelectSeq(trades, LAMBDA t : t.pnl > 0)
Losses(trades) == SelectSeq(trades, LAMBDA t : t.pnl <= 0)
SumPnl(trades) == SumSeq([k \in 1..Len(trades) |-> trades[k].pnl])
SumPnlPct(trades) == SumSeq([k \in 1..Len(trades) |-> trades[k].pnl_pct])
OfType(trades, type) == SelectSeq(trades, LAMBDA t : t.signal_type = type)

\* one SignalTypeStats of by_signal_type
SignalTypeStats(trades, type) ==
    LET mine == OfType(trades, type)
        type_wins == Wins(mine)
        type_losses == Losses(mine)
    IN  [signal_type |-> type,
         trade_count |-> Len(mine),
         win_count |-> Len(type_wins),
         total_pnl |-> SumPnl(mine),
         gross_profit |-> SumPnl(type_wins),
         gross_loss |-> SumSeq([k \in 1..Len(type_losses) |-> Abs(type_losses[k].pnl)]),
         avg_win_pct |-> IF type_wins # <<>>
                         THEN RoundDiv(SumPnlPct(type_wins), Len(type_wins)) ELSE 0,
         avg_loss_pct |-> IF type_losses # <<>>
                          THEN Abs(RoundDiv(SumPnlPct(type_losses), Len(type_losses))) ELSE 0]

\* Backtester._compute_stats (the Sharpe ratio, a square root, is left out)
compute_stats(cfg, trades, equity_curve) ==
    LET wins == Wins(trades)
        losses == Losses(trades)
        gross_profit == SumPnl(wins)
        gross_loss == Abs(SumPnl(losses))
        total_pnl == SumPnl(trades)
        dd == max_drawdown(equity_curve)
        types == {trades[k].signal_type : k \in 1..Len(trades)}
    IN  IF trades = <<>> THEN BacktestStats
        ELSE [total_return |-> Round2(total_pnl),
              total_return_pct |->
                  RoundDiv((total_pnl \div Cent) * 10000, cfg.initial_capital \div Cent),
              total_pnl |-> Round2(total_pnl),
              trade_count |-> Len(trades),
              win_count |-> Len(wins),
              win_rate |-> RoundDiv(Len(wins) * 10000, Len(trades)),
              avg_win |-> IF wins # <<>> THEN Round2Div(gross_profit, Len(wins)) ELSE 0,
              avg_loss |-> IF losses # <<>> THEN Round2Div(gross_loss, Len(losses)) ELSE 0,
              avg_win_pct |-> IF wins # <<>> THEN RoundDiv(SumPnlPct(wins), Len(wins)) ELSE 0,
              avg_loss_pct |-> IF losses # <<>>
                               THEN Abs(RoundDiv(SumPnlPct(losses), Len(losses))) ELSE 0,
              profit_factor |-> IF gross_loss > 0
                                THEN Some(RoundDiv(gross_profit * 100, gross_loss))
                                ELSE None,
              max_drawdown |-> Round2(dd[1]),
              max_drawdown_pct |-> dd[2],
              by_signal_type |-> [type \in types |-> SignalTypeStats(trades, type)]]

\* ------------------------------------------------------------------------
\* backtester.py: one iteration of the loop of Backtester.run
\* ------------------------------------------------------------------------
\* The locals of run are a record s with the fields capital, position, trades,
\* equity_curve and cooldown_until, and two history fields: opened lists every
\* position at the moment _try_entry returns it, with the 0-based index of
\* its bar, and tried is the set of the bar indices at which _try_entry was
\* called.

\* the exit handling with a cooldown that ends one day early
Exited_short_cooldown(cfg, s, bar, trade) ==
    IF ~IsNone(trade)
    THEN [s EXCEPT
            !.trades = Append(s.trades, Val(trade)),
            !.capital = s.capital + Val(trade).pnl,
            !.cooldown_until =
                IF Val(trade).exit_reason = "STOP_LOSS" /\ cfg.cooldown_days > 0
                THEN Some(bar.date + cfg.cooldown_days - 1)
                ELSE s.cooldown_until,
            !.position = None]
    ELSE [s EXCEPT !.position = Some(hold_position(cfg, Val(s.position), bar))]

\* the locals after _check_exit, a cooldown starting after every exit
Exited_cooldown_after_any_exit(cfg, s, bar, trade) ==
    IF ~IsNone(trade)
    THEN [s EXCEPT
            !.trades = Append(s.trades, Val(trade)),
            !.capital = s.capital + Val(trade).pnl,
            !.cooldown_until =
                IF cfg.cooldown_days > 0
                THEN Some(bar.date + cfg.cooldown_days)
                ELSE s.cooldown_until,
            !.position = None]
    ELSE [s EXCEPT !.position = Some(hold_position(cfg, Val(s.position), bar))]

\* the locals after _check_exit, the pnl of the trade left out of the capital
Exited_unbooked(cfg, s, bar, trade) ==
    IF ~IsNone(trade)
    THEN [s EXCEPT
            !.trades = Append(s.trades, Val(trade)),
            !.cooldown_until =
                IF Val(trade).exit_reason = "STOP_LOSS" /\ cfg.cooldown_days > 0
                THEN Some(bar.date + cfg.cooldown_days)
                ELSE s.cooldown_until,
            !.position = None]
    ELSE [s EXCEPT !.position = Some(hold_position(cfg, Val(s.position), bar))]

\* the locals after _check_exit has returned trade for the bar
Exited(cfg, s, bar, trade) ==
    IF ~IsNone(trade)
    THEN [s EXCEPT
            !.trades = Append(s.trades, Val(trade)),
            !.capital = s.capital + Val(trade).pnl,
            !.cooldown_until =
                IF Val(trade).exit_reason = "STOP_LOSS" /\ cfg.cooldown_days > 0
                THEN Some(bar.date + cfg.cooldown_days)
                ELSE s.cooldown_until,
            !.position = None]
    ELSE [s EXCEPT !.position = Some(hold_position(cfg, Val(s.position), bar))]

\* the exit handling of a bar (if position is not None: ...)
exit_step(cfg, s, bar) ==
    IF IsNone(s.position) THEN s
    ELSE Exited(cfg, s, bar, check_exit(cfg, Val(s.position), bar))

\* the locals after _try_entry has returned entered at the bar of index idx
Entered(s, idx, entered) ==
    [s EXCEPT
        !.cooldown_until = None,
        !.position = entered,
        !.tried = s.tried \cup {idx},
        !.opened = IF IsNone(entered) THEN s.opened
                   ELSE Append(s.opened, [idx |-> idx, pos |-> Val(entered)])]

\* the entry handling without the test "if position is None"
entry_step_pyramiding(cfg, df, idx, s) ==
    IF ~IsNone(s.cooldown_until) /\ df[idx + 1].date < Val(s.cooldown_until) THEN s
    ELSE Entered(s, idx, try_entry(cfg, df, idx, s.capital))

\* the entry handling of a bar (if position is None: ...); idx is 0-based
entry_step(cfg, df, idx, s) ==
    IF ~IsNone(s.position) THEN s
    ELSE IF ~IsNone(s.cooldown_until) /\ df[idx + 1].date < Val(s.cooldown_until) THEN s
    ELSE Entered(s, idx, try_entry(cfg, df, idx, s.capital))

\* the equity point without the unrealized pnl of the open position
mark_step_realized(s, bar) ==
    [s EXCEPT !.equity_curve =
        Append(s.equity_curve, [date |-> bar.date, equity |-> s.capital])]

\* the equity point of a bar
mark_step(s, bar) ==
    LET unrealized == IF ~IsNone(s.position)
                      THEN Val(s.position).shares * (bar.close - Val(s.position).entry_price)
                      ELSE 0
    IN  [s EXCEPT !.equity_curve =
            Append(s.equity_curve, [date |-> bar.date, equity |-> s.capital + unrealized])]

\* the body of the loop with the entry handled before the exit
loop_body_entry_first(cfg, df, idx, s) ==
    mark_step(exit_step(cfg, entry_step(cfg, df, idx, s), df[idx + 1]), df[idx + 1])

\* the body of "for i in range(start_idx, len(df))" for the bar of index idx
loop_body(cfg, df, idx, s) ==
    mark_step(entry_step(cfg, df, idx, exit_step(cfg, s, df[idx + 1])), df[idx + 1])

\* the end of run without the forced close
end_of_data_left_open(df, s) == s

\* the forced close after the loop (if position is not None: ...)
end_of_data(df, s) ==
    LET pos == Val(s.position)
        last_bar == df[Len(df)]
        exit_price == last_bar.close
        pnl == pos.shares * (exit_price - pos.entry_price)
        trade == [signal_type |-> pos.signal_type,
                  entry_date |-> pos.entry_date,
                  entry_price |-> pos.entry_price,
                  exit_date |-> last_bar.date,
                  exit_price |-> exit_price,
                  exit_reason |-> "END_OF_DATA",
                  shares |-> pos.shares,
                  stop_loss |-> pos.stop_loss,
                  target_price |-> pos.target_price,
                  pnl |-> Round2(pnl),
                  pnl_pct |-> PnlPct(pos.entry_price, exit_price),
                  holding_days |-> last_bar.date - pos.entry_date]
    IN  IF IsNone(s.position) THEN s
        ELSE [s EXCEPT
                !.trades = Append(s.trades, trade),
                !.capital = s.capital + pnl,
                !.position = None]

\* the locals as run sets them before the loop
start_locals(cfg) ==
    [capital |-> cfg.initial_capital, position |-> None, trades |-> <<>>,
     equity_curve |-> <<>>, cooldown_until |-> None, opened |-> <<>>, tried |-> {}]

\* BacktestResult(...)
BacktestResult(cfg, stats, trades, equity_curve) ==
    [config |-> cfg, stats |-> stats, trades |-> trades, equity_curve |-> equity_curve]

\* ------------------------------------------------------------------------
\* Inputs: bar sequences and configurations
\* ------------------------------------------------------------------------
\* prices of the inputs are written in cents
Bar(date, open, high, low, close, volume) ==
    [date |-> date, open |-> open * Cent, high |-> high * Cent, low |-> low * Cent,
     close |-> close * Cent, volume |-> volume]

\* 120 quiet bars around 10.00: the moving averages are concentrated
HistFlat == [k \in 1..120 |-> Bar(k, 1000, 1010, 990, 1000, 10)]

\* 120 bars with a 2B structure: a plateau at 13.00, a fall to a first low
\* 9.90 (bar 98), a lower low 9.60 (bar 102), a recovery to 10.00, and then
\* bars without any range
TwoBClose(k) ==
    IF k <= 95 THEN 1300
    ELSE IF k = 96 THEN 1100
    ELSE IF k = 97 THEN 1050
    ELSE IF k = 98 THEN 990
    ELSE IF k = 99 THEN 1020
    ELSE IF k = 100 THEN 1040
    ELSE IF k = 101 THEN 1010
    ELSE IF k = 102 THEN 960
    ELSE IF k = 103 THEN 980
    ELSE 1000

HistTwoB ==
    [k \in 1..120 |->
        IF k <= 107
        THEN Bar(k, TwoBClose(k), TwoBClose(k) + 10, TwoBClose(k) - 10, TwoBClose(k), 10)
        ELSE Bar(k, 1000, 1000, 1000, 1000, 10)]

\* 119 quiet bars at 9.17 and a bar that closes at 10.0042 on ten times the
\* volume: a breakout from concentrated averages, with a target of 12.01 and
\* a stop of 9.00, which is a little more than half the reward below the close
HistGap ==
    [k \in 1..120 |->
        IF k <= 119 THEN Bar(k, 917, 917, 917, 917, 10)
        ELSE [Bar(k, 917, 1001, 917, 1000, 100) EXCEPT !.close = 100042]]

\* the quiet bars of HistFlat with one close of 9.50, at the ninth bar before
\* the first bar after the history
HistDip ==
    [k \in 1..120 |->
        IF k = 112 THEN Bar(k, 1000, 1010, 950, 950, 10) ELSE HistFlat[k]]

\* the 2B history with an earlier low of 12.00 at bar 90 and with the two lows
\* a little less than a cent apart: 9.9040 at bar 98 and 9.8960 at bar 102,
\* followed by closes of 10.00, but for one of 9.9020 at bar 104
ShallowClose(k) ==
    IF k = 90 THEN 120000
    ELSE IF k = 98 THEN 99040
    ELSE IF k = 102 THEN 98960
    ELSE IF k = 103 THEN 100000
    ELSE IF k = 104 THEN 99020
    ELSE TwoBClose(k) * Cent

HistShallow == [k \in 1..120 |-> [HistTwoB[k] EXCEPT !.close = ShallowClose(k)]]

Histories == {"Flat", "TwoB"}

History(name) ==
    CASE name = "Flat" -> HistFlat
      [] name = "TwoB" -> HistTwoB
      [] name = "Gap" -> HistGap
      [] name = "Dip" -> HistDip
      [] name = "Shallow" -> HistShallow

Shapes == {"Dead", "Breakout", "Rally", "Crash", "Both"}

ShapeBar(shape, date) ==
    CASE shape = "Dead" -> Bar(date, 1000, 1000, 1000, 1000, 10)
      [] shape = "Breakout" -> Bar(date, 1000, 1035, 1000, 1030, 100)
      [] shape = "Rally" -> Bar(date, 1040, 1180, 1040, 1090, 10)
      [] shape = "Crash" -> Bar(date, 1000, 1000, 900, 950, 10)
      [] shape = "Both" -> Bar(date, 1000, 1300, 900, 1000, 10)
      \* a bar that follows HistGap
      [] shape = "Creep" -> Bar(date, 1000, 1010, 1000, 1010, 100)

\* the dates after the history: consecutive days, with a weekend after the
\* second one
TailDate(j) == 120 + j + (IF j >= 3 THEN 2 ELSE 0)

TailBars(shapes) == [j \in 1..Len(shapes) |-> ShapeBar(shapes[j], TailDate(j))]

\* the shape sequences of length lo..hi over the set of shapes S
ShapeSeqs(S, lo, hi) == UNION {[1..n -> S] : n \in lo..hi}

\* A bar sequence is described by the history it starts with, the number of
\* bars taken from that history, and the shapes of the bars that follow.
Source(history, cut, shapes) == [history |-> history, cut |-> cut, shapes |-> shapes]

DataFrame(src) == SubSeq(History(src.history), 1, src.cut) \o TailBars(src.shapes)

\* sequences too short for the simulator, and histories followed by bars
ShortLengths == {0, 29, 119}

Sources ==
    {Source(h, n, <<>>) : h \in Histories, n \in ShortLengths}
    \cup {Source(h, 120, t) : h \in Histories, t \in ShapeSeqs(Shapes, 0, MaxTail)}

\* BacktestConfig: percentages are integers, money is in 1/10000
BacktestConfig(capital, risk, holding, trailing, types, cooldown, trend, atr) ==
    [initial_capital |-> capital * Cent, risk_per_trade |-> risk,
     max_holding_days |-> holding, trailing_stop_pct |-> trailing,
     signal_types |-> types, cooldown_days |-> cooldown, trend_filter |-> trend,
     stop_loss_atr_mult |-> atr]

\* the defaults of the dataclass, with a capital of 1000.00
ConfigDefault == BacktestConfig(100000, 2, 60, None, None, 15, FALSE, Some(2))
\* a trailing stop of 5%, the signal's own stop, a cooldown of 4 days
ConfigTrailing == BacktestConfig(100000, 2, 60, Some(5), None, 4, FALSE, None)
\* at most 2 days in a position, no cooldown, the trend filter
ConfigShort ==
    BacktestConfig(100000, 2, 2, None, Some({"2B_STRUCTURE", "MA_CONCENTRATION_BREAKOUT"}),
                   0, TRUE, None)

Configs == {ConfigDefault, ConfigTrailing, ConfigShort}

\* ------------------------------------------------------------------------
\* State
\* ------------------------------------------------------------------------
VARIABLES
    source,         \* the input of the request: the description of a bar sequence,
                    \* or the arguments of a function called on its own
    config,         \* Backtester.config
    pc,             \* "start", "loop" or "done": the position in the request
    i,              \* the loop variable of run (0-based index of the next bar)
    capital,        \* the locals of run
    position,
    trades,
    equity_curve,
    cooldown_until,
    opened,         \* history: the positions _try_entry returned
    tried,          \* history: the bar indices at which _try_entry was called
    result,         \* the BacktestResult returned, None before
    first,          \* the bars and the outcome of an earlier call of run, None if none
    response,       \* what a signal or analysis request, or a function called on its
                    \* own, returned; None if none
    clock,          \* time.monotonic(), in whole seconds
    av_limiter,     \* the RateLimiter shared by the requests to the quote provider
    callers,        \* the coroutines that call av_limiter.acquire(): their position
    acquired,       \* history: the timestamps acquire() recorded, in order
    scanner_state,  \* the ScannerState shared by the scans
    scans           \* the coroutines that run run_scan, and the scheduled scanner

\* the variables of a backtest, signal or analysis request
request_vars == <<source, config, pc, i, capital, position, trades, equity_curve,
                  cooldown_until, opened, tried, result, first, response>>

\* the variables of the rate limiter and of the scanner
limiter_vars == <<clock, av_limiter, callers, acquired>>
scanner_vars == <<scanner_state, scans>>

vars == <<source, config, pc, i, capital, position, trades, equity_curve, cooldown_until,
          opened, tried, result, first, response,
          clock, av_limiter, callers, acquired, scanner_state, scans>>

\* the bar sequence given to run
df == DataFrame(source)

Locals ==
    [capital |-> capital, position |-> position, trades |-> trades,
     equity_curve |-> equity_curve, cooldown_until |-> cooldown_until,
     opened |-> opened, tried |-> tried]

SetLocals(s) ==
    /\ capital' = s.capital
    /\ position' = s.position
    /\ trades' = s.trades
    /\ equity_curve' = s.equity_curve
    /\ cooldown_until' = s.cooldown_until
    /\ opened' = s.opened
    /\ tried' = s.tried

\* RateLimiter.__init__; locked and waiters are the state of the asyncio.Lock
RateLimiter(max_calls, period_seconds) ==
    [max_calls |-> max_calls, period |-> period_seconds, timestamps |-> <<>>,
     locked |-> FALSE, waiters |-> <<>>, total_calls |-> 0, waits |-> 0]

\* ScannerState(): of the fields, running and two of the counters are kept
ScannerState == [running |-> FALSE, stocks_scanned |-> 0, errors |-> 0]

\* the scheduled scanner sleeps until the next scan of its schedule, and no
\* scan has been started; refused tells that a trigger was answered "in
\* progress"
NoScans == [scheduler |-> "sleeping", runs |-> <<>>, refused |-> FALSE]

\* the services at rest: av_limiter = RateLimiter(max_calls=72,
\* period_seconds=60.0) without callers, scanner_state = ScannerState()
ServicesIdle ==
    /\ clock = 0
    /\ av_limiter = RateLimiter(72, 60)
    /\ callers = <<>>
    /\ acquired = <<>>
    /\ scanner_state = ScannerState
    /\ scans = NoScans

\* a Backtester constructed with a configuration, and a bar sequence to run
\* on; the locals of run do not exist yet
InitWith(sources, configs) ==
    /\ source \in sources
    /\ config \in configs
    /\ pc = "start"
    /\ i = 0
    /\ capital = 0
    /\ position = None
    /\ trades = <<>>
    /\ equity_curve = <<>>
    /\ cooldown_until = None
    /\ opened = <<>>
    /\ tried = {}
    /\ result = None
    /\ first = None
    /\ response = None
    /\ ServicesIdle

Init == InitWith(Sources, Configs)

\* ------------------------------------------------------------------------
\* Backtester.run
\* ------------------------------------------------------------------------
\* if df.empty or len(df) < 120: return an empty result
RunShort ==
    /\ pc = "start"
    /\ df = <<>> \/ Len(df) < 120
    /\ result' = Some(BacktestResult(config, BacktestStats, <<>>, <<>>))
    /\ pc' = "done"
    /\ UNCHANGED <<source, config, i, capital, position, trades, equity_curve,
                   cooldown_until, opened, tried, first, response>>
    /\ UNCHANGED <<limiter_vars, scanner_vars>>

\* the start of run with cooldown_until kept from an earlier call
RunBeginKeepsCooldown ==
    /\ pc = "start"
    /\ ~(df = <<>> \/ Len(df) < 120)
    /\ SetLocals([start_locals(config) EXCEPT !.cooldown_until = cooldown_until])
    /\ i' = 120
    /\ pc' = "loop"
    /\ UNCHANGED <<source, config, result, first, response>>
    /\ UNCHANGED <<limiter_vars, scanner_vars>>

\* the locals are set and the loop starts at start_idx = 120
RunBegin ==
    /\ pc = "start"
    /\ ~(df = <<>> \/ Len(df) < 120)
    /\ SetLocals(start_locals(config))
    /\ i' = 120
    /\ pc' = "loop"
    /\ UNCHANGED <<source, config, result, first, response>>
    /\ UNCHANGED <<limiter_vars, scanner_vars>>

\* one iteration of the loop
ProcessBar ==
    /\ pc = "loop"
    /\ i < Len(df)
    /\ SetLocals(loop_body(config, df, i, Locals))
    /\ i' = i + 1
    /\ UNCHANGED <<source, config, pc, result, first, response>>
    /\ UNCHANGED <<limiter_vars, scanner_vars>>

\* after the loop: the forced close, the statistics, the result
Finish ==
    /\ pc = "loop"
    /\ i >= Len(df)
    /\ LET s == end_of_data(df, Locals)
       IN  /\ SetLocals(s)
           /\ result' = Some(BacktestResult(config,
                                            compute_stats(config, s.trades, s.equity_curve),
                                            s.trades, s.equity_curve))
    /\ pc' = "done"
    /\ UNCHANGED <<source, config, i, first, response>>
    /\ UNCHANGED <<limiter_vars, scanner_vars>>

Next == RunShort \/ RunBegin \/ ProcessBar \/ Finish

Spec == Init /\ [][Next]_vars

\* ------------------------------------------------------------------------
\* routers/backtest.py: run called again with the same configuration
\* ------------------------------------------------------------------------
\* the bars that follow the history in the sequences of a second call
RerunShapes == {"Dead", "Breakout", "Crash"}

RerunSources ==
    {Source(h, 119, <<>>) : h \in Histories}
    \cup {Source(h, 120, t) : h \in Histories, t \in ShapeSeqs(RerunShapes, 0, MaxRerun)}

RerunConfigs == {ConfigTrailing}

InitRerun == InitWith(RerunSources, RerunConfigs)

\* run has returned and is called again, on bars that start with the same
\* history; what the first call was given and what it returned is kept in first
Rerun ==
    /\ pc = "done"
    /\ IsNone(first)
    /\ first' = Some([source |-> source,
                      result |-> Val(result),
                      opened |-> IF Len(df) < 120 THEN <<>> ELSE opened])
    /\ source' \in {src \in RerunSources : src.history = source.history}
    /\ result' = None
    /\ pc' = "start"
    /\ UNCHANGED <<config, i, capital, position, trades, equity_curve, cooldown_until,
                   opened, tried, response>>
    /\ UNCHANGED <<limiter_vars, scanner_vars>>

NextRerun == Next \/ Rerun

SpecRerun == InitRerun /\ [][NextRerun]_vars

\* ------------------------------------------------------------------------
\* routers/signals.py and technical.py: the detectors on a bar sequence
\* ------------------------------------------------------------------------
\* every prefix of the histories, the histories followed by one bar, the
\* breakout history with and without a bar after it, and the prefixes of the
\* shallow 2B history that end around its second low
AnalysisSources ==
    {Source(h, n, <<>>) : h \in Histories, n \in 0..120}
    \cup {Source(h, 120, t) : h \in Histories, t \in ShapeSeqs(Shapes, 1, 1)}
    \cup {Source("Gap", 120, t) : t \in {<<>>, <<"Creep">>}}
    \cup {Source("Shallow", n, <<>>) : n \in 100..108}

InitAnalysis == InitWith(AnalysisSources, {ConfigDefault})

\* get_buy_signals: [] for an empty frame, else scan_buy_signals(df)
GetBuySignals ==
    /\ pc = "start"
    /\ response' = Some([route |-> "buy",
                         body |-> IF df = <<>> THEN <<>> ELSE scan_buy_signals(df)])
    /\ pc' = "done"
    /\ UNCHANGED <<source, config, i, capital, position, trades, equity_curve,
                   cooldown_until, opened, tried, result, first>>
    /\ UNCHANGED <<limiter_vars, scanner_vars>>

\* run_full_analysis: {} for fewer than 20 bars, else the analysis, of which
\* the slopes, the turn predictions, the 2B structure and the concentration
\* are kept
RunFullAnalysis ==
    /\ pc = "start"
    /\ response' =
          Some([route |-> "analysis",
                body |-> IF df = <<>> \/ Len(df) < 20 THEN None
                         ELSE Some([slopes |->
                                        SlopesOf(Column(df, "date"),
                                                 calc_slope(RollingSum(Column(df, "close"), 20), 5),
                                                 calc_slope(RollingSum(Column(df, "close"), 60), 5)),
                                    ma20_turn |-> IF Len(df) > 40
                                                  THEN Some(predict_ma_turn(df, 20, 20))
                                                  ELSE None,
                                    ma60_turn |-> IF Len(df) > 80
                                                  THEN Some(predict_ma_turn(df, 60, 20))
                                                  ELSE None,
                                    two_b |-> detect_2b(df),
                                    concentration |-> detect_ma_concentration(df)])])
    /\ pc' = "done"
    /\ UNCHANGED <<source, config, i, capital, position, trades, equity_curve,
                   cooldown_until, opened, tried, result, first>>
    /\ UNCHANGED <<limiter_vars, scanner_vars>>

NextAnalysis == Next \/ GetBuySignals \/ RunFullAnalysis

SpecAnalysis == InitAnalysis /\ [][NextAnalysis]_vars

\* ------------------------------------------------------------------------
\* risk_manager.py: calculate_position_size called on its own
\* ------------------------------------------------------------------------
\* the arguments of a call: money and prices in 1/10000, the risk in percent
SizingArgs(account_value, entry_price, stop_loss, risk_per_trade) ==
    [account_value |-> account_value * Cent, entry_price |-> entry_price * Cent,
     stop_loss |-> stop_loss * Cent, risk_per_trade |-> risk_per_trade]

\* accounts of -1000.00, 0, 1000.00 and 100000.00, prices between 45.00 and
\* 53.00, a risk of 1% or 2%
SizingInputs ==
    {SizingArgs(a, e, s, r) : a \in {-100000, 0, 100000, 10000000},
                              e \in {4500, 4700, 5000},
                              s \in {4500, 4700, 5000, 5300},
                              r \in {1, 2}}

InitSizing == InitWith(SizingInputs, {ConfigDefault})

CalculatePositionSize ==
    /\ pc = "start"
    /\ response' = Some([route |-> "size",
                         body |-> calculate_position_size(source.account_value,
                                                          source.entry_price,
                                                          source.stop_loss,
                                                          source.risk_per_trade)])
    /\ pc' = "done"
    /\ UNCHANGED <<source, config, i, capital, position, trades, equity_curve,
                   cooldown_until, opened, tried, result, first>>
    /\ UNCHANGED <<limiter_vars, scanner_vars>>

NextSizing == CalculatePositionSize

SpecSizing == InitSizing /\ [][NextSizing]_vars

\* ------------------------------------------------------------------------
\* routers/backtest.py: run with a configured list of signal types
\* ------------------------------------------------------------------------
\* the signal types of scan_buy_signals, in the order of its branches
SignalTypes == <<"2B_STRUCTURE", "MA_CONCENTRATION_BREAKOUT", "MA_TURN_UP">>

\* a request with signal_types set to each list over the three types, the
\* empty list included; the signal's own stop and no cooldown
FilterConfigs ==
    {BacktestConfig(100000, 2, 60, None, Some(S), 0, FALSE, None) :
        S \in SUBSET {SignalTypes[k] : k \in 1..Len(SignalTypes)}}

InitFilter == InitWith(RerunSources, FilterConfigs)

SpecFilter == InitFilter /\ [][Next]_vars

\* ------------------------------------------------------------------------
\* routers/backtest.py: run with the trend filter
\* ------------------------------------------------------------------------
\* the histories, and the quiet history with a dip, followed by bars
TrendSources ==
    {Source(h, 119, <<>>) : h \in Histories \cup {"Dip"}}
    \cup {Source(h, 120, t) : h \in Histories \cup {"Dip"},
                              t \in ShapeSeqs(RerunShapes, 0, MaxRerun)}

InitTrend == InitWith(TrendSources, {ConfigShort})

SpecTrend == InitTrend /\ [][Next]_vars

\* ------------------------------------------------------------------------
\* backtester.py: _max_drawdown called on its own
\* ------------------------------------------------------------------------
\* equity curves of at most MaxCurve points on consecutive days, with
\* equities of 90.00, 100.00, 110.00 and 120.00
EquityCurves ==
    UNION {{[k \in 1..n |-> [date |-> k, equity |-> e[k] * Cent]] :
                e \in [1..n -> {9000, 10000, 11000, 12000}]} : n \in 0..MaxCurve}

InitDrawdown == InitWith(EquityCurves, {ConfigDefault})

MaxDrawdown ==
    /\ pc = "start"
    /\ response' = Some([route |-> "drawdown", body |-> max_drawdown(source)])
    /\ pc' = "done"
    /\ UNCHANGED <<source, config, i, capital, position, trades, equity_curve,
                   cooldown_until, opened, tried, result, first>>
    /\ UNCHANGED <<limiter_vars, scanner_vars>>

NextDrawdown == MaxDrawdown

SpecDrawdown == InitDrawdown /\ [][NextDrawdown]_vars

\* ------------------------------------------------------------------------
\* rate_limiter.py: RateLimiter.acquire called by concurrent coroutines
\* ------------------------------------------------------------------------
\* the coroutines that call _av_request, and the last second of the clock
MaxCallers == 3
MaxClock == 6

Callers == 1..MaxCallers

\* the limiters the callers share: 1 or 2 calls in 2 or 3 seconds
Limiters == {RateLimiter(n, p) : n \in 1..2, p \in 2..3}

\* no request is being served
NoRequest ==
    /\ source = Source("Flat", 0, <<>>)
    /\ config = ConfigDefault
    /\ pc = "start"
    /\ i = 0
    /\ capital = 0
    /\ position = None
    /\ trades = <<>>
    /\ equity_curve = <<>>
    /\ cooldown_until = None
    /\ opened = <<>>
    /\ tried = {}
    /\ result = None
    /\ first = None
    /\ response = None

\* a limiter just constructed, and callers that have not called it yet
InitLimiter ==
    /\ NoRequest
    /\ clock = 0
    /\ av_limiter \in Limiters
    /\ callers = [c \in Callers |-> [pc |-> "idle", sleep_until |-> None]]
    /\ acquired = <<>>
    /\ scanner_state = ScannerState
    /\ scans = NoScans

\* while self._timestamps and self._timestamps[0] <= limit: popleft()
RECURSIVE PopExpired(_, _)
PopExpired(timestamps, limit) ==
    IF timestamps # <<>> /\ timestamps[1] <= limit
    THEN PopExpired(Tail(timestamps), limit)
    ELSE timestamps

\* self._timestamps.append(now); self.total_calls += 1
record_call(lim, now) ==
    [lim EXCEPT !.timestamps = Append(@, now), !.total_calls = @ + 1]

\* acquire with the lock held, up to its await or its end, with a limit of
\* one call more
acquire_locked_one_more(lim, now) ==
    LET timestamps == PopExpired(lim.timestamps, now - lim.period)
    IN  IF Len(timestamps) > lim.max_calls /\ timestamps[1] + lim.period - now > 0
        THEN [limiter |-> [lim EXCEPT !.timestamps = timestamps, !.waits = @ + 1],
              sleep_until |-> Some(timestamps[1] + lim.period)]
        ELSE [limiter |-> record_call([lim EXCEPT !.timestamps = timestamps], now),
              sleep_until |-> None]

\* acquire with the lock held, at the time now, up to its await or its end:
\* the limiter afterwards, and the time until which the caller sleeps, if it
\* does
acquire_locked(lim, now) ==
    LET timestamps == PopExpired(lim.timestamps, now - lim.period)
    IN  IF Len(timestamps) >= lim.max_calls /\ timestamps[1] + lim.period - now > 0
        THEN [limiter |-> [lim EXCEPT !.timestamps = timestamps, !.waits = @ + 1],
              sleep_until |-> Some(timestamps[1] + lim.period)]
        ELSE [limiter |-> record_call([lim EXCEPT !.timestamps = timestamps], now),
              sleep_until |-> None]

\* acquire after its sleep, at the time now
acquire_woken(lim, now) ==
    record_call([lim EXCEPT !.timestamps = PopExpired(@, now - lim.period)], now)

\* the caller c holds the lock lim was left with and runs acquire up to its
\* await, where it keeps the lock, or to its end, where it releases it
Locked(c, lim) ==
    LET step == acquire_locked(lim, clock)
    IN  IF IsNone(step.sleep_until)
        THEN /\ av_limiter' = [step.limiter EXCEPT !.locked = FALSE]
             /\ callers' = [callers EXCEPT ![c].pc = "done"]
             /\ acquired' = Append(acquired, clock)
        ELSE /\ av_limiter' = [step.limiter EXCEPT !.locked = TRUE]
             /\ callers' = [callers EXCEPT ![c] = [pc |-> "sleeping",
                                                   sleep_until |-> step.sleep_until]]
             /\ acquired' = acquired

\* a coroutine calls acquire: it takes the lock when it is free and nobody
\* waits for it, and waits for it, last in line, otherwise
Acquire(c) ==
    /\ callers[c].pc = "idle"
    /\ IF ~av_limiter.locked /\ av_limiter.waiters = <<>>
       THEN Locked(c, av_limiter)
       ELSE /\ av_limiter' = [av_limiter EXCEPT !.waiters = Append(@, c)]
            /\ callers' = [callers EXCEPT ![c].pc = "lock"]
            /\ acquired' = acquired
    /\ UNCHANGED <<clock, request_vars, scanner_vars>>

\* the lock was released, and the first of the coroutines waiting takes it
TakeLock(c) ==
    /\ callers[c].pc = "lock"
    /\ ~av_limiter.locked
    /\ Head(av_limiter.waiters) = c
    /\ Locked(c, [av_limiter EXCEPT !.waiters = Tail(@)])
    /\ UNCHANGED <<clock, request_vars, scanner_vars>>

\* asyncio.sleep(wait_time) returns, at sleep_until or later: the timestamp
\* is recorded and the lock released
Wake(c) ==
    /\ callers[c].pc = "sleeping"
    /\ clock >= Val(callers[c].sleep_until)
    /\ av_limiter' = [acquire_woken(av_limiter, clock) EXCEPT !.locked = FALSE]
    /\ callers' = [callers EXCEPT ![c] = [pc |-> "done", sleep_until |-> None]]
    /\ acquired' = Append(acquired, clock)
    /\ UNCHANGED <<clock, request_vars, scanner_vars>>

\* a second passes
Tick ==
    /\ clock < MaxClock
    /\ clock' = clock + 1
    /\ UNCHANGED <<av_limiter, callers, acquired, request_vars, scanner_vars>>

NextLimiter ==
    \/ \E c \in Callers : Acquire(c)
    \/ \E c \in Callers : TakeLock(c)
    \/ \E c \in Callers : Wake(c)
    \/ Tick

SpecLimiter == InitLimiter /\ [][NextLimiter]_vars

\* ------------------------------------------------------------------------
\* services/scanner.py: run_scan started by trigger_scan and by the schedule
\* ------------------------------------------------------------------------
\* the scans ever started, and the symbols of a scan
MaxRuns == 3
MaxSymbols == 2

InitScanner ==
    /\ NoRequest
    /\ ServicesIdle

\* a coroutine of run_scan: created by trigger_scan it has not run yet
ScanRun(origin, at) == [origin |-> origin, pc |-> at, scanned |-> 0]

\* run_scan up to its first await: running is set, the counters are reset
scan_started(state) == [state EXCEPT !.running = TRUE, !.stocks_scanned = 0, !.errors = 0]

\* trigger_scan: "in progress" when scanner_state.running, else running is
\* set and a task is created for run_scan
TriggerScan ==
    /\ IF scanner_state.running
       THEN /\ scans' = [scans EXCEPT !.refused = TRUE]
            /\ scanner_state' = scanner_state
       ELSE /\ Len(scans.runs) < MaxRuns
            /\ scanner_state' = [scanner_state EXCEPT !.running = TRUE]
            /\ scans' = [scans EXCEPT !.runs = Append(@, ScanRun("manual", "created"))]
    /\ UNCHANGED <<request_vars, limiter_vars>>

\* the task created by trigger_scan starts to run
StartScan(r) ==
    /\ scans.runs[r].pc = "created"
    /\ scanner_state' = scan_started(scanner_state)
    /\ scans' = [scans EXCEPT !.runs[r].pc = "running"]
    /\ UNCHANGED <<request_vars, limiter_vars>>

\* _scheduled_scanner: the sleep until the next scan of the schedule ends,
\* and the loop awaits run_scan
ScheduledScan ==
    /\ scans.scheduler = "sleeping"
    /\ Len(scans.runs) < MaxRuns
    /\ scanner_state' = scan_started(scanner_state)
    /\ scans' = [scans EXCEPT !.scheduler = "scanning",
                              !.runs = Append(@, ScanRun("scheduled", "running"))]
    /\ UNCHANGED <<request_vars, limiter_vars>>

\* run_scan: _scan_single has returned for one more symbol, with or without
\* an error
ScanSymbol(r) ==
    /\ scans.runs[r].pc = "running"
    /\ scans.runs[r].scanned < MaxSymbols
    /\ \E failed \in BOOLEAN :
          scanner_state' = [scanner_state EXCEPT
                               !.stocks_scanned = @ + 1,
                               !.errors = IF failed THEN @ + 1 ELSE @]
    /\ scans' = [scans EXCEPT !.runs[r].scanned = @ + 1]
    /\ UNCHANGED <<request_vars, limiter_vars>>

\* run_scan: finally, after the last symbol or after an exception; the
\* scheduled scanner goes on to its next sleep
FinishScan(r) ==
    /\ scans.runs[r].pc = "running"
    /\ scanner_state' = [scanner_state EXCEPT !.running = FALSE]
    /\ scans' = [scans EXCEPT
                    !.runs[r].pc = "done",
                    !.scheduler = IF scans.runs[r].origin = "scheduled"
                                  THEN "sleeping" ELSE @]
    /\ UNCHANGED <<request_vars, limiter_vars>>

NextScanner ==
    \/ TriggerScan
    \/ ScheduledScan
    \/ \E r \in 1..Len(scans.runs) : StartScan(r)
    \/ \E r \in 1..Len(scans.runs) : ScanSymbol(r)
    \/ \E r \in 1..Len(scans.runs) : FinishScan(r)

SpecScanner == InitScanner /\ [][NextScanner]_vars

\* ------------------------------------------------------------------------
\* Properties
\* ------------------------------------------------------------------------
\* the step is one iteration of the loop of run
IsProcessBar == pc = "loop" /\ pc' = "loop" /\ i' = i + 1

\* the bar of the iteration that starts in this state
cur_bar == df[i + 1]

\* the bar of the last iteration done
done_bar == df[i]

\* The exit the priority order STOP_LOSS, TRAILING_STOP, TARGET_HIT, TIME_EXIT
\* asks for when the position pos meets the bar b: <<reason, price>>, or <<>>
\* when no condition holds.
ExpectedExit(cfg, pos, b) ==
    IF b.low <= pos.stop_loss THEN <<"STOP_LOSS", pos.stop_loss>>
    ELSE IF ~IsNone(pos.trailing_stop) /\ b.low <= Val(pos.trailing_stop)
    THEN <<"TRAILING_STOP", Val(pos.trailing_stop)>>
    ELSE IF b.high >= pos.target_price THEN <<"TARGET_HIT", pos.target_price>>
    ELSE IF b.date - pos.entry_date >= cfg.max_holding_days THEN <<"TIME_EXIT", b.close>>
    ELSE <<>>

\* C1: at every bar processed with a position open, the first condition that
\* holds in the order STOP_LOSS (low <= stop), TRAILING_STOP (trailing stop set
\* and low <= trailing stop), TARGET_HIT (high >= target), TIME_EXIT (holding
\* days >= maximum) decides the exit reason and the exit price of the trade
\* recorded at that bar (the price rounded to cents, as a trade records it),
\* and no trade is recorded when none holds; so a bar that breaches the stop,
\* the trailing stop and the target is a STOP_LOSS at the stop price.
ExitPriority ==
    [][(IsProcessBar /\ ~IsNone(position)) =>
          LET want == ExpectedExit(config, Val(position), cur_bar)
          IN  IF want = <<>> THEN trades' = trades
              ELSE /\ Len(trades') = Len(trades) + 1
                   /\ SubSeq(trades', 1, Len(trades)) = trades
                   /\ trades'[Len(trades')].exit_reason = want[1]
                   /\ trades'[Len(trades')].exit_price = Round2(want[2])
                   /\ trades'[Len(trades')].exit_date = cur_bar.date]_vars

\* a bar whose low is under the stop and under the trailing stop of the open
\* position and whose high is over its target has just been processed, and
\* the trade was recorded
ExitPriorityWitness ==
    /\ pc = "loop"
    /\ i > 120
    /\ trades # <<>>
    /\ trades[Len(trades)].exit_date = done_bar.date
    /\ trades[Len(trades)].exit_reason = "STOP_LOSS"
    /\ done_bar.low <= trades[Len(trades)].stop_loss
    /\ done_bar.high >= trades[Len(trades)].target_price
    /\ ~IsNone(opened[Len(trades)].pos.trailing_stop)
    /\ done_bar.low <= Val(opened[Len(trades)].pos.trailing_stop)

\* run is inside or after its loop on a sequence of at least 120 bars
InRun == pc = "loop" \/ (pc = "done" /\ Len(df) >= 120)

\* C2: during run at most one position is open: every position opened was
\* closed as a trade before the next one was opened (only the last one opened
\* may be the open one), _try_entry is called only at bars where every
\* earlier position has already been closed, and of any two trades the later
\* one's entry date is not earlier than the earlier one's exit date.
SinglePosition ==
    InRun =>
        /\ Len(opened) = Len(trades) + (IF IsNone(position) THEN 0 ELSE 1)
        /\ ~IsNone(position) => Val(position).entry_date = opened[Len(opened)].pos.entry_date
        /\ \A idx \in tried : \A k \in 1..Len(opened) :
              opened[k].idx < idx =>
                  /\ k <= Len(trades)
                  /\ trades[k].exit_date <= df[idx + 1].date
        /\ \A k \in 1..Len(trades) : \A l \in (k + 1)..Len(trades) :
              trades[l].entry_date >= trades[k].exit_date

\* two trades, the second entered on the bar on which the first was closed
SinglePositionWitness ==
    /\ InRun
    /\ Len(trades) >= 2
    /\ trades[2].entry_date = trades[1].exit_date

\* the number of leading bars on which the sequences a and b agree
CommonLen(a, b) ==
    LET n == Min2(Len(a), Len(b))
        differ == {k \in 1..n : a[k] # b[k]}
    IN  IF differ = {} THEN n ELSE MinOf(differ) - 1

\* run is in or after its loop for the second time
SecondRun == ~IsNone(first) /\ InRun

\* the bar sequence of the first call of run
first_df == DataFrame(Val(first).source)

\* What the first call of run and the present one have in common on the bars
\* they share and the present one has processed: the equity points, the
\* positions opened and the trades closed at these bars. The trades closed by
\* the forced close at the end of the data count when forced is TRUE.
SameOnSharedBars(forced) ==
    LET upto == Min2(CommonLen(first_df, df), i)
        old == Val(first).result
        counts(t) == (forced \/ t.exit_reason # "END_OF_DATA")
                     /\ t.exit_date <= df[upto].date
    IN  /\ \A idx \in 120..(upto - 1) :
              old.equity_curve[idx - 119] = equity_curve[idx - 119]
        /\ SelectSeq(Val(first).opened, LAMBDA o : o.idx < upto)
              = SelectSeq(opened, LAMBDA o : o.idx < upto)
        /\ upto > 120 => SelectSeq(old.trades, counts) = SelectSeq(trades, counts)

\* C3 as stated: for two sequences identical on bars 0..i run with the same
\* configuration, the equity points of bars 120..i, the positions opened up
\* to bar i and all the exits recorded up to bar i are identical in the two
\* results.
NoLookAheadAllExits == (SecondRun /\ pc = "done") => SameOnSharedBars(TRUE)

\* C3, amended: for two sequences identical on bars 0..i run with the same
\* configuration, the equity points of bars 120..i, the positions opened up
\* to bar i and the exits the exit check recorded up to bar i are identical;
\* the END_OF_DATA trade of a sequence that ends at bar i is not among them.
\* This holds of the result and of the locals of run after every bar.
NoLookAhead == SecondRun => SameOnSharedBars(FALSE)

\* the second sequence leaves the first after a bar at which a position was
\* opened, both go on after it, and the two results differ
NoLookAheadWitness ==
    /\ SecondRun
    /\ pc = "done"
    /\ CommonLen(first_df, df) > 120
    /\ CommonLen(first_df, df) < Len(df)
    /\ CommonLen(first_df, df) < Len(first_df)
    /\ opened # <<>>
    /\ opened[1].idx < CommonLen(first_df, df)
    /\ Val(first).result.trades # Val(result).trades

BarsBefore(t, day) ==
    {j \in 120..(i - 1) : df[j + 1].date >= t.exit_date /\ df[j + 1].date < day}

\* the 0-based indices of the bars processed so far dated day or later
BarsFrom(day) == {j \in 120..(i - 1) : df[j + 1].date >= day}

\* C4: after a STOP_LOSS exit on a bar dated d with cooldown_days = c > 0, no
\* position is opened on a bar dated earlier than d + c calendar days, the
\* exit bar included (_try_entry is not even called on these bars), and
\* _try_entry is called on the first bar dated d + c or later.
Cooldown ==
    (InRun /\ config.cooldown_days > 0) =>
        \A k \in 1..Len(trades) :
            trades[k].exit_reason = "STOP_LOSS" =>
                /\ \A l \in (k + 1)..Len(opened) :
                      opened[l].pos.entry_date >= trades[k].exit_date + config.cooldown_days
                /\ BarsBefore(trades[k], trades[k].exit_date + config.cooldown_days)
                      \cap tried = {}
                /\ BarsFrom(trades[k].exit_date + config.cooldown_days) # {} =>
                      MinOf(BarsFrom(trades[k].exit_date + config.cooldown_days)) \in tried

\* a STOP_LOSS exit, a later bar inside the cooldown that was passed over, and
\* a bar after the cooldown on which the entry was evaluated again
CooldownWitness ==
    /\ InRun
    /\ config.cooldown_days > 0
    /\ trades # <<>>
    /\ trades[1].exit_reason = "STOP_LOSS"
    /\ \E j \in BarsBefore(trades[1], trades[1].exit_date + config.cooldown_days) :
          df[j + 1].date > trades[1].exit_date
    /\ BarsFrom(trades[1].exit_date + config.cooldown_days) \cap tried # {}

\* C5: from one processed bar to the next the highest_since_entry of an open
\* position never decreases and its trailing stop never decreases; the
\* trailing stop changes only when a trailing stop percentage is configured,
\* to highest_since_entry x (1 - percentage), a strictly higher value; and a
\* position is carried over a bar only when no exit condition matched at it
\* (no trade is recorded at that bar).
TrailingRatchet ==
    [][(IsProcessBar /\ ~IsNone(position) /\ ~IsNone(position') /\ opened' = opened) =>
          LET old == Val(position)
              new == Val(position')
          IN  /\ trades' = trades
              /\ ExpectedExit(config, old, cur_bar) = <<>>
              /\ new.highest_since_entry >= old.highest_since_entry
              /\ IsNone(new.trailing_stop) = IsNone(old.trailing_stop)
              /\ ~IsNone(old.trailing_stop) =>
                    /\ Val(new.trailing_stop) >= Val(old.trailing_stop)
                    /\ Val(new.trailing_stop) # Val(old.trailing_stop) =>
                          /\ Truthy(config.trailing_stop_pct)
                          /\ Val(new.trailing_stop) =
                                (new.highest_since_entry
                                    * (100 - Val(config.trailing_stop_pct))) \div 100]_vars

\* an open position whose trailing stop has been raised above the one it was
\* opened with, after a bar whose high is below its highest_since_entry
TrailingRatchetWitness ==
    /\ pc = "loop"
    /\ i > 120
    /\ ~IsNone(position)
    /\ ~IsNone(Val(position).trailing_stop)
    /\ Val(Val(position).trailing_stop) > Val(opened[Len(opened)].pos.trailing_stop)
    /\ done_bar.high < Val(position).highest_since_entry
    /\ done_bar.date > Val(position).entry_date + 1

\* the trade t closes the position pos
ClosesPosition(t, pos) ==
    /\ t.signal_type = pos.signal_type
    /\ t.entry_date = pos.entry_date
    /\ t.entry_price = pos.entry_price
    /\ t.shares = pos.shares

\* the step is the end of run after the last bar
IsFinish == pc = "loop" /\ pc' = "done"

\* C6: when run leaves its loop with a position open it appends exactly one
\* trade, which closes that position with the reason END_OF_DATA at the date
\* and the close of the final bar, and it appends nothing when no position
\* is open; only the last trade of a result can have the reason END_OF_DATA;
\* and the trades of the result are, one for one and in order, the positions
\* that were opened.
ForcedClose ==
    /\ [][IsFinish =>
            /\ Val(result').trades = trades'
            /\ IF IsNone(position) THEN trades' = trades
               ELSE /\ Len(trades') = Len(trades) + 1
                    /\ SubSeq(trades', 1, Len(trades)) = trades
                    /\ ClosesPosition(trades'[Len(trades')], Val(position))
                    /\ trades'[Len(trades')].exit_reason = "END_OF_DATA"
                    /\ trades'[Len(trades')].exit_date = df[Len(df)].date
                    /\ trades'[Len(trades')].exit_price = df[Len(df)].close]_vars
    /\ [](InRun =>
            /\ \A k \in 1..Len(trades) :
                  trades[k].exit_reason = "END_OF_DATA" => (pc = "done" /\ k = Len(trades))
            /\ pc = "done" =>
                  /\ Len(Val(result).trades) = Len(opened)
                  /\ \A k \in 1..Len(opened) :
                        ClosesPosition(Val(result).trades[k], opened[k].pos))

\* run has returned two trades, the second one opened before the final bar
\* and closed by the end of the data
ForcedCloseWitness ==
    /\ pc = "done"
    /\ Len(df) > 120
    /\ Len(Val(result).trades) = 2
    /\ Val(result).trades[2].exit_reason = "END_OF_DATA"
    /\ Val(result).trades[2].entry_date < df[Len(df)].date
    /\ Val(result).trades[2].exit_price # Val(result).trades[2].entry_price

\* shares x (close of the bar b - entry price) of the position p, 0 when flat
Unrealized(p, b) ==
    IF IsNone(p) THEN 0 ELSE Val(p).shares * (b.close - Val(p).entry_price)

\* C7: on n >= 120 bars the equity curve has, in bar order, one point for
\* each bar of index 120..n-1 processed so far, dated as the bar (n - 120
\* points in the result); every iteration of the loop appends one point and
\* changes no earlier one, and the value of the point is the capital after
\* the exit handling of the bar plus shares x (close - entry price) of the
\* position open at the end of the bar, 0 when there is none.
EquityCurve ==
    /\ [](InRun =>
            /\ Len(equity_curve) = i - 120
            /\ \A k \in 1..Len(equity_curve) : equity_curve[k].date = df[120 + k].date
            /\ pc = "done" =>
                  /\ Val(result).equity_curve = equity_curve
                  /\ Len(equity_curve) = Len(df) - 120)
    /\ [][IsProcessBar =>
            /\ Len(equity_curve') = Len(equity_curve) + 1
            /\ SubSeq(equity_curve', 1, Len(equity_curve)) = equity_curve
            /\ capital' = exit_step(config, Locals, cur_bar).capital
            /\ equity_curve'[Len(equity_curve')].equity
                  = capital' + Unrealized(position', cur_bar)]_vars

\* after a trade has changed the capital a new position is open, and the last
\* bar closed away from its entry price
EquityCurveWitness ==
    /\ pc = "loop"
    /\ i > 120
    /\ trades # <<>>
    /\ capital # config.initial_capital
    /\ ~IsNone(position)
    /\ done_bar.close # Val(position).entry_price
    /\ equity_curve[Len(equity_curve)].equity # capital

\* C8: run on fewer than 120 bars (none included) returns no trade, no
\* equity point and statistics that are all zero; scan_buy_signals returns
\* the empty list on fewer than 120 bars, detect_2b returns nothing on fewer
\* than 30 bars and detect_ma_concentration returns nothing on fewer than
\* 120 bars, both called directly and inside the signal and the analysis
\* requests.
ShortInput ==
    /\ (pc = "done" /\ ~IsNone(result) /\ Len(df) < 120) =>
          /\ Val(result).trades = <<>>
          /\ Val(result).equity_curve = <<>>
          /\ Val(result).stats.trade_count = 0
          /\ Val(result).stats.win_count = 0
          /\ Val(result).stats.total_return = 0
          /\ Val(result).stats.total_return_pct = 0
          /\ Val(result).stats.total_pnl = 0
          /\ Val(result).stats.win_rate = 0
          /\ Val(result).stats.avg_win = 0
          /\ Val(result).stats.avg_loss = 0
          /\ Val(result).stats.profit_factor = Some(0)
          /\ Val(result).stats.max_drawdown = 0
          /\ Val(result).stats.max_drawdown_pct = 0
          /\ Val(result).stats.by_signal_type = <<>>
    /\ Len(df) < 120 => scan_buy_signals(df) = <<>> /\ IsNone(detect_ma_concentration(df))
    /\ Len(df) < 30 => IsNone(detect_2b(df))
    /\ (~IsNone(response) /\ Len(df) < 120) =>
          IF Val(response).route = "buy" THEN Val(response).body = <<>>
          ELSE ~IsNone(Val(response).body) =>
                  /\ IsNone(Val(Val(response).body).concentration)
                  /\ Len(df) < 30 => IsNone(Val(Val(response).body).two_b)

\* a signal request on 119 bars that hold a 2B structure: the three detector
\* branches of scan_buy_signals would return a signal on them
ShortInputWitness ==
    /\ pc = "done"
    /\ ~IsNone(response)
    /\ Val(response).route = "buy"
    /\ Len(df) = 119
    /\ ScanBranches(df, df[Len(df)].close, calc_sma(Column(df, "close"), 60)[Len(df)]) # <<>>

\* the signal _try_entry takes at the bar of 0-based index j, as a sequence
\* of at most one signal: none when the trend filter rejects the bar or no
\* signal of a configured type is found
SignalAt(j) ==
    IF config.trend_filter /\ TrendRejects(PySlice(df, 0, j + 1)) THEN <<>>
    ELSE LET signals == FilterSignals(config, scan_buy_signals(PySlice(df, 0, j + 1)))
         IN  IF signals = <<>> THEN <<>> ELSE <<signals[1]>>

\* the position size for the signal sig at the bar of index j with capital c
SizeAt(j, sig, c) ==
    calculate_position_size(c, sig.entry_price,
                            EntryStop(config, PySlice(df, 0, j + 1), sig),
                            config.risk_per_trade)

\* the sizer gives no share for the signal sig at bar j with capital c
NoShares(j, sig, c) == SizeAt(j, sig, c).shares <= 0

\* the shares of the signal sig at bar j cost more than the capital c
TooDear(j, sig, c) == SizeAt(j, sig, c).shares * sig.entry_price > c

\* _try_entry finds a signal at bar j and its size is refused with capital c
Refused(j, c) ==
    LET found == SignalAt(j)
    IN  found # <<>> /\ (NoShares(j, found[1], c) \/ TooDear(j, found[1], c))

\* the bar of the step got no position: the capital and the trades are as the
\* exit handling of the bar left them in the locals after, the bar has its
\* equity point, and the loop goes on to the next bar
EntrySkipped(after) ==
    /\ IsNone(position')
    /\ opened' = opened
    /\ capital' = after.capital
    /\ trades' = after.trades
    /\ Len(equity_curve') = Len(equity_curve) + 1
    /\ equity_curve'[Len(equity_curve')] = [date |-> cur_bar.date, equity |-> capital']
    /\ pc' = "loop"
    /\ i' = i + 1

\* C9: when _try_entry is called at a bar and the sizer returns no share for
\* its signal (the stop equal to the entry price included), or the shares
\* cost more than the capital, no position is opened at that bar, the
\* capital and the trades stay as the exit handling of the bar left them, the
\* bar gets its equity point, and the loop goes on to the next bar. (Written
\* as "skipped, or else not refused", which is the same implication.)
SizingRejection ==
    [][(IsProcessBar /\ i \in tried') =>
          \/ EntrySkipped(exit_step(config, Locals, cur_bar))
          \/ ~Refused(i, exit_step(config, Locals, cur_bar).capital)]_vars

\* the signal at bar j has its stop at its entry price and gets no share
Degenerate(j, c) ==
    LET found == SignalAt(j)
    IN  /\ found # <<>>
        /\ EntryStop(config, PySlice(df, 0, j + 1), found[1]) = found[1].entry_price
        /\ NoShares(j, found[1], c)

\* the signal at bar j gets shares that cost more than the capital
Unaffordable(j, c) ==
    LET found == SignalAt(j)
    IN  found # <<>> /\ ~NoShares(j, found[1], c) /\ TooDear(j, found[1], c)

\* no trade has changed the capital; an entry was refused at one bar for want
\* of shares (a stop at the entry price), at another bar because the shares
\* cost too much, and at a later bar a position was opened
SizingRejectionWitness ==
    /\ pc = "loop"
    /\ trades = <<>>
    /\ opened # <<>>
    /\ \E j \in tried, k \in tried :
          /\ j # k
          /\ opened[1].idx > j
          /\ opened[1].idx > k
          /\ Degenerate(j, capital)
          /\ Unaffordable(k, capital)

\* ------------------------------------------------------------------------
\* C11: position sizing
\* ------------------------------------------------------------------------
\* a call of calculate_position_size has returned
Sized == pc = "done" /\ ~IsNone(response) /\ Val(response).route = "size"

\* the result of the call
sizing == Val(response).body

\* |entryPrice - stopLoss|
PerShareRisk == Abs(source.entry_price - source.stop_loss)

\* accountValue x riskPerTrade, in hundredths of 1/10000
RiskAmount == source.account_value * source.risk_per_trade

\* shares = floor(riskAmount / perShareRisk): the largest integer n with
\* n x perShareRisk <= riskAmount
SharesAreFloor ==
    /\ sizing.shares * (100 * PerShareRisk) <= RiskAmount
    /\ RiskAmount < (sizing.shares + 1) * (100 * PerShareRisk)

\* shares = riskAmount / perShareRisk without its fractional part: of the
\* sign of riskAmount, and the largest magnitude that perShareRisk covers
SharesAreTruncated ==
    /\ RiskAmount >= 0 => sizing.shares >= 0
    /\ RiskAmount <= 0 => sizing.shares <= 0
    /\ Abs(sizing.shares) * (100 * PerShareRisk) <= Abs(RiskAmount)
    /\ Abs(RiskAmount) < (Abs(sizing.shares) + 1) * (100 * PerShareRisk)

\* the risk taken is within the risk amount
WithinRisk == sizing.shares * (100 * PerShareRisk) <= RiskAmount

\* accountValue 100000, riskPerTrade 0.02, entry 50, stop 45
SizingExample == source = SizingArgs(10000000, 5000, 4500, 2)

\* C11 as stated: the shares are the floor of riskAmount / perShareRisk when
\* perShareRisk > 0 and 0 otherwise, and shares x perShareRisk <= riskAmount,
\* for every input; the example gives a risk amount of 2000 and 400 shares.
SizingFloorEveryInput ==
    Sized =>
        /\ PerShareRisk > 0 => SharesAreFloor
        /\ PerShareRisk <= 0 => sizing.shares = 0
        /\ WithinRisk
        /\ SizingExample => sizing.shares = 400 /\ sizing.risk_amount = 2000 * 100 * Cent

\* C11, amended: the shares are riskAmount / perShareRisk truncated towards
\* zero when perShareRisk > 0 and 0 otherwise; for a risk amount that is not
\* negative this is the floor and shares x perShareRisk <= riskAmount; the
\* example gives a risk amount of 2000 and 400 shares.
SizingContract ==
    Sized =>
        /\ PerShareRisk > 0 => SharesAreTruncated
        /\ PerShareRisk <= 0 => sizing.shares = 0
        /\ RiskAmount >= 0 => WithinRisk /\ (PerShareRisk > 0 => SharesAreFloor)
        /\ SizingExample => sizing.shares = 400 /\ sizing.risk_amount = 2000 * 100 * Cent

\* the example has been sized
SizingContractWitness ==
    /\ Sized
    /\ SizingExample
    /\ sizing.shares = 400
    /\ sizing.total_cost = 400 * source.entry_price

\* ------------------------------------------------------------------------
\* C12: the gates of scan_buy_signals
\* ------------------------------------------------------------------------
\* get_buy_signals has returned the signals of scan_buy_signals
Scanned == pc = "done" /\ ~IsNone(response) /\ Val(response).route = "buy"

\* the signals returned
scanned == Val(response).body

lastClose == df[Len(df)].close

\* (targetPrice - lastClose) / (lastClose - stopLoss) >= 2.0
RatioAtLeastTwo(sig) ==
    sig.target_price - lastClose >= 2 * (lastClose - sig.stop_loss)

\* the ratio rounded to two decimals is at least 2.00, so that the ratio itself
\* is at least 1.995
RoundedRatioAtLeastTwo(sig) ==
    /\ sig.risk_reward_ratio >= 200
    /\ 200 * (sig.target_price - lastClose) >= 399 * (lastClose - sig.stop_loss)

\* (lastClose - stopLoss) / lastClose < 0.10
RiskUnderTenth(sig) == (lastClose - sig.stop_loss) * 10 < lastClose

\* the candidates: the stop and the target of a detection, before its gate
Candidates ==
    LET two_b == detect_2b(df)
        concentration == detect_ma_concentration(df)
        ma20_turn == predict_ma_turn(df, 20, 20)
        last_ma60 == calc_sma(Column(df, "close"), 60)[Len(df)]
        two_b_c ==
            IF ~IsNone(two_b) /\ Val(two_b).is_substantive
            THEN {[signal_type |-> "2B_STRUCTURE",
                   stop_loss |-> Round2Div(Val(two_b).point_b_price * 98, 100),
                   target_price |-> IF Truthy(last_ma60) THEN Round2(Val(last_ma60))
                                    ELSE Round2Div(lastClose * 115, 100)]}
            ELSE {}
        concentration_c ==
            IF ~IsNone(concentration) /\ Val(concentration).breakout_detected
               /\ Val(concentration).volume_confirmed
            THEN {[signal_type |-> "MA_CONCENTRATION_BREAKOUT",
                   stop_loss |-> Round2Div(Val(concentration).price_range_low * 98, 100),
                   target_price |-> Round2Div(lastClose * 120, 100)]}
            ELSE {}
        turn_c ==
            IF ma20_turn.will_turn_up /\ ma20_turn.confidence > 50
            THEN {[signal_type |-> "MA_TURN_UP",
                   stop_loss |-> Round2Div(lastClose * 95, 100),
                   target_price |-> IF Truthy(last_ma60) /\ Val(last_ma60) > lastClose
                                    THEN Round2(Val(last_ma60))
                                    ELSE Round2Div(lastClose * 112, 100)]}
            ELSE {}
    IN  two_b_c \cup concentration_c \cup turn_c

Emitted(c) ==
    \E k \in 1..Len(scanned) :
        /\ scanned[k].signal_type = c.signal_type
        /\ scanned[k].stop_loss = c.stop_loss
        /\ scanned[k].target_price = c.target_price

\* C12 as stated: every signal returned has lastClose - stopLoss > 0 and
\* (targetPrice - lastClose) / (lastClose - stopLoss) >= 2.0, a 2B_STRUCTURE
\* signal has (lastClose - stopLoss) / lastClose < 0.10 as well, and a
\* candidate that fails its gate is not emitted.
GatesExactRatio ==
    (Scanned /\ Len(df) >= 120) =>
        /\ \A k \in 1..Len(scanned) :
              /\ lastClose - scanned[k].stop_loss > 0
              /\ RatioAtLeastTwo(scanned[k])
              /\ scanned[k].signal_type = "2B_STRUCTURE" => RiskUnderTenth(scanned[k])
        /\ \A c \in Candidates :
              \/ ~Emitted(c)
              \/ /\ lastClose - c.stop_loss > 0
                 /\ RatioAtLeastTwo(c)
                 /\ c.signal_type = "2B_STRUCTURE" => RiskUnderTenth(c)

\* C12, amended: every signal returned has lastClose - stopLoss > 0 and a
\* ratio (targetPrice - lastClose) / (lastClose - stopLoss) that, rounded to
\* two decimals, is at least 2.00 (the ratio itself is at least 1.995), a
\* 2B_STRUCTURE signal has (lastClose - stopLoss) / lastClose < 0.10 as well,
\* and a candidate is emitted exactly when it passes this gate.
Gates ==
    (Scanned /\ Len(df) >= 120) =>
        /\ \A k \in 1..Len(scanned) :
              /\ lastClose - scanned[k].stop_loss > 0
              /\ RoundedRatioAtLeastTwo(scanned[k])
              /\ scanned[k].signal_type = "2B_STRUCTURE" => RiskUnderTenth(scanned[k])
              /\ Emitted(scanned[k])
              /\ [signal_type |-> scanned[k].signal_type,
                  stop_loss |-> scanned[k].stop_loss,
                  target_price |-> scanned[k].target_price] \in Candidates
        /\ \A c \in Candidates :
              Emitted(c) <=>
                 /\ lastClose - c.stop_loss > 0
                 /\ 200 * (c.target_price - lastClose) >= 399 * (lastClose - c.stop_loss)
                 /\ c.signal_type = "2B_STRUCTURE" => RiskUnderTenth(c)

\* a breakout candidate was refused at its gate: the bar after the breakout
\* history closes at 10.10, for a ratio of 1.87
GatesWitness ==
    /\ Scanned
    /\ source = Source("Gap", 120, <<"Creep">>)
    /\ Candidates # {}
    /\ scanned = <<>>

\* ------------------------------------------------------------------------
\* C13: the order of the signals and the signal taken
\* ------------------------------------------------------------------------
\* the place of a signal type in the order 2B, concentration, turn-up
TypeRank(type) == CHOOSE k \in 1..Len(SignalTypes) : SignalTypes[k] = type

\* at most one signal per type, in the order of the types
InTypeOrder(signals) ==
    /\ \A k \in 1..Len(signals) :
          signals[k].signal_type \in {SignalTypes[r] : r \in 1..Len(SignalTypes)}
    /\ \A a, b \in 1..Len(signals) :
          a < b => TypeRank(signals[a].signal_type) < TypeRank(signals[b].signal_type)

\* the list of signal types in force: none when signal_types is not set or empty
TypesInForce ==
    IF ~IsNone(config.signal_types) /\ Val(config.signal_types) # {}
    THEN config.signal_types ELSE None

\* the signal stays after the signal-type filter
Remains(sig) == IsNone(TypesInForce) \/ sig.signal_type \in Val(TypesInForce)

\* the positions of the list whose signal remains after the filter
Remaining(signals) == {k \in 1..Len(signals) : Remains(signals[k])}

\* the position pos was opened from the first signal of the list that remains
FromFirstRemaining(pos, signals) ==
    /\ Remaining(signals) # {}
    /\ LET k == CHOOSE k \in Remaining(signals) : \A m \in Remaining(signals) : k <= m
       IN  /\ pos.signal_type = signals[k].signal_type
           /\ pos.entry_price = signals[k].entry_price
           /\ pos.target_price = signals[k].target_price

\* the position opened at the bar of index j, as a sequence of at most one
OpenedAt(j) == SelectSeq(opened, LAMBDA o : o.idx = j)

TradesWithin(S) ==
    /\ \A k \in 1..Len(trades) : trades[k].signal_type \in S
    /\ ~IsNone(position) => Val(position).signal_type \in S
    /\ ~IsNone(result) =>
          \A k \in 1..Len(Val(result).trades) : Val(result).trades[k].signal_type \in S

\* C14 as stated: with signal_types configured as any subset S of the three
\* types, every trade of run is of a type in S.
TradesOfConfiguredTypesAnySubset ==
    (pc = "done" /\ ~IsNone(result) /\ ~IsNone(config.signal_types)) =>
        \A k \in 1..Len(Val(result).trades) :
            Val(result).trades[k].signal_type \in Val(config.signal_types)

\* C14, amended: with signal_types configured as a subset S of the three
\* types that is not empty, every trade of run (and every position it opens)
\* is of a type in S; an empty list is taken as no list at all, and the
\* trades are then of any of the types that fire.
TradesOfConfiguredTypes ==
    (InRun /\ ~IsNone(config.signal_types) /\ Val(config.signal_types) # {}) =>
        TradesWithin(Val(config.signal_types))

\* a run under the list [MA_CONCENTRATION_BREAKOUT] has returned a trade
TradesOfConfiguredTypesWitness ==
    /\ pc = "done"
    /\ config.signal_types = Some({"MA_CONCENTRATION_BREAKOUT"})
    /\ ~IsNone(result)
    /\ Val(result).trades # <<>>
    /\ Val(result).trades[1].signal_type = "MA_CONCENTRATION_BREAKOUT"

\* ------------------------------------------------------------------------
\* C16: the window of predict_ma_turn
\* ------------------------------------------------------------------------
\* run_full_analysis has returned an analysis
Analysed ==
    /\ pc = "done"
    /\ ~IsNone(response)
    /\ Val(response).route = "analysis"
    /\ ~IsNone(Val(response).body)

\* the analysis returned
analysis == Val(Val(response).body)

\* the closes of the bars
closes == Column(df, "close")

\* the minimum of the window of lookahead closes that starts period bars
\* before the end: closes[n - period .. n - period + lookahead - 1], 0-based
RequiredPrice(period, lookahead) ==
    MinRange(closes, Len(df) - period + 1, Len(df) - period + lookahead)

\* the prediction is the one of the window: willTurnUp is last close >
\* requiredPrice, and the confidence is min(1, (last close - requiredPrice) /
\* requiredPrice x 5) when turning and 0 otherwise
TurnOfWindow(turn, period, lookahead) ==
    LET required == RequiredPrice(period, lookahead)
        last == closes[Len(df)]
    IN  /\ turn.will_turn_up = (last > required)
        /\ turn.confidence =
              IF last > required
              THEN Min2(100, RoundDiv((last - required) * 500, required))
              ELSE 0

\* C16: on at least period + lookahead bars, predict_ma_turn gives the
\* prediction of the window closes[n - period .. n - period + lookahead - 1],
\* for period 60 and for period 20 with the default lookahead of 20.
TurnWindow ==
    Analysed =>
        /\ (~IsNone(analysis.ma60_turn) /\ Len(df) >= 60 + 20) =>
              TurnOfWindow(Val(analysis.ma60_turn), 60, 20)
        /\ (~IsNone(analysis.ma20_turn) /\ Len(df) >= 20 + 20) =>
              TurnOfWindow(Val(analysis.ma20_turn), 20, 20)

\* ------------------------------------------------------------------------
\* C15: the signal types that fire
\* ------------------------------------------------------------------------
\* the signal types of the list scan_buy_signals returns on the bars of src
TypesFired(src) ==
    LET signals == scan_buy_signals(DataFrame(src))
    IN  {signals[k].signal_type : k \in 1..Len(signals)}

\* the bar sequences of at least 120 bars among the inputs
LongSources == {src \in AnalysisSources : Len(DataFrame(src)) >= 120}

\* some sequence of at least 120 bars makes scan_buy_signals return exactly
\* the signals of these types
Fires(types) == \E src \in LongSources : TypesFired(src) = types

\* C15: there are bar sequences of at least 120 bars for which
\* scan_buy_signals returns no signal, sequences for which it returns a signal
\* of each single type, and sequences for which it returns all three.
EachTypeFires ==
    /\ Fires({})
    /\ \A k \in 1..Len(SignalTypes) : Fires({SignalTypes[k]})
    /\ Fires({SignalTypes[k] : k \in 1..Len(SignalTypes)})

\* ------------------------------------------------------------------------
\* C17: the trend filter
\* ------------------------------------------------------------------------
\* SMA(60) on the bars up to the bar of 0-based index j
Sma60Upto(j) == calc_sma(Column(PySlice(df, 0, j + 1), "close"), 60)

\* SMA(60) measured back bars before the bar of index j exceeds SMA(60) at
\* that bar, both being defined
Sma60Declined(j, back) ==
    LET ma60 == Sma60Upto(j)
    IN  /\ j + 1 - back >= 1
        /\ ~IsNone(ma60[j + 1])
        /\ ~IsNone(ma60[j + 1 - back])
        /\ Val(ma60[j + 1 - back]) > Val(ma60[j + 1])

\* what _try_entry returns at the bar of index j with capital c when the
\* signal scan proceeds
ScanProceeds(j, c) ==
    EntryInWindow([config EXCEPT !.trend_filter = FALSE], PySlice(df, 0, j + 1), c,
                  df[j + 1].date)

\* C17: with trendFilter enabled, at a bar i where the simulator looks for an
\* entry it opens no position when SMA(60) measured 10 bars before bar i
\* exceeds SMA(60) at bar i, and otherwise the position of the signal scan.
TrendFilterTenBars ==
    [][(IsProcessBar /\ config.trend_filter /\ i \in tried') =>
          position' = IF Sma60Declined(i, 10) THEN None
                      ELSE ScanProceeds(i, exit_step(config, Locals, cur_bar).capital)]_vars

\* ------------------------------------------------------------------------
\* C18: the stop from the average true range
\* ------------------------------------------------------------------------
\* TR_j = max(high_j - low_j, |high_j - close_(j-1)|, |low_j - close_(j-1)|)
\* of the bar of 0-based index j
TrueRange(j) ==
    Max3(df[j + 1].high - df[j + 1].low,
         Abs(df[j + 1].high - df[j].close),
         Abs(df[j + 1].low - df[j].close))

\* the sum of the true ranges of the count bars that end at the bar of index j
SumTrueRanges(j, count) == SumSeq([k \in 1..count |-> TrueRange(j - count + k)])

\* entryPrice - m x ATR rounded to the cent, ATR being the mean of the true
\* ranges of the count bars that end at the bar of index j
AtrStop(j, entry_price, count) ==
    Round2Div(entry_price * count - SumTrueRanges(j, count) * Val(config.stop_loss_atr_mult),
              count)

\* the position was sized from its stop: its shares are the largest number
\* whose risk to the stop is within the risk amount of the capital c
SizedFromStop(pos, c) ==
    LET per_share == 100 * Abs(pos.entry_price - pos.stop_loss)
    IN  /\ pos.shares * per_share <= c * config.risk_per_trade
        /\ c * config.risk_per_trade < (pos.shares + 1) * per_share

\* C18: with stopLossAtrMult = m configured, a position opened at bar i has
\* the stop entryPrice - m x ATR, ATR being the mean of the true ranges of the
\* 14 bars that end at bar i, and it is sized from that stop.
AtrStopFourteen ==
    [][(IsProcessBar /\ Truthy(config.stop_loss_atr_mult) /\ opened' # opened) =>
          /\ Val(position').stop_loss = AtrStop(i, Val(position').entry_price, 14)
          /\ SizedFromStop(Val(position'), exit_step(config, Locals, cur_bar).capital)]_vars

\* ------------------------------------------------------------------------
\* C19: the time exit
\* ------------------------------------------------------------------------
\* bar date minus entry date
HoldingDays(pos, b) == b.date - pos.entry_date

\* neither the stop, the trailing stop nor the target of pos triggers on b
NoPriceExit(pos, b) ==
    /\ b.low > pos.stop_loss
    /\ IsNone(pos.trailing_stop) \/ b.low > Val(pos.trailing_stop)
    /\ b.high < pos.target_price

\* the last trade recorded is the time exit of pos at the bar b
TimeExitOf(pos, b, recorded) ==
    /\ recorded.exit_reason = "TIME_EXIT"
    /\ recorded.exit_price = Round2(b.close)
    /\ recorded.exit_date = b.date
    /\ recorded.entry_date = pos.entry_date
    /\ recorded.holding_days = HoldingDays(pos, b)

\* C19: a position whose holding days reach max_holding_days on a bar where
\* neither the stop, the trailing stop nor the target triggers is closed on
\* that bar with TIME_EXIT at the close of the bar; and a position that is
\* open after a processed bar has holding days < max_holding_days as of that
\* bar.
TimeExit ==
    /\ [][(/\ IsProcessBar
           /\ ~IsNone(position)
           /\ HoldingDays(Val(position), cur_bar) >= config.max_holding_days
           /\ NoPriceExit(Val(position), cur_bar)) =>
             /\ Len(trades') = Len(trades) + 1
             /\ TimeExitOf(Val(position), cur_bar, trades'[Len(trades')])
             /\ position' # position]_vars
    /\ [](pc = "loop" /\ i > 120 /\ ~IsNone(position) =>
             HoldingDays(Val(position), done_bar) < config.max_holding_days)

\* a position held for max_holding_days or more has just been closed by
\* TIME_EXIT at the close of a bar whose close is not its open, after it had
\* stayed open over an earlier bar
TimeExitWitness ==
    /\ pc = "loop"
    /\ i > 121
    /\ trades # <<>>
    /\ trades[Len(trades)].exit_reason = "TIME_EXIT"
    /\ trades[Len(trades)].exit_date = done_bar.date
    /\ trades[Len(trades)].holding_days >= config.max_holding_days
    /\ done_bar.close # done_bar.open
    /\ trades[Len(trades)].exit_price = done_bar.close
    /\ trades[Len(trades)].exit_date - trades[Len(trades)].entry_date > 1

\* ------------------------------------------------------------------------
\* C20: the maximum drawdown
\* ------------------------------------------------------------------------
\* _max_drawdown has returned
DrawnDown == pc = "done" /\ ~IsNone(response) /\ Val(response).route = "drawdown"

\* the curve given, and what was returned for it: the absolute drawdown and
\* the percentage in hundredths of a percent
curve == source
drawdown == Val(response).body

\* the highest equity among the points 1..j
PeakUpto(j) ==
    CHOOSE e \in {curve[k].equity : k \in 1..j} : \A k \in 1..j : curve[k].equity <= e

\* the drop at the point j: the highest equity so far minus the equity
DropAt(j) == PeakUpto(j) - curve[j].equity

\* the points where the drop is the largest of the curve
WorstPoints == {j \in 1..Len(curve) : \A k \in 1..Len(curve) : DropAt(k) <= DropAt(j)}

\* the equity falls nowhere
NonDecreasing == \A k \in 1..(Len(curve) - 1) : curve[k].equity <= curve[k + 1].equity

\* the curve [100, 120, 90, 110]
DrawdownExample ==
    /\ Len(curve) = 4
    /\ [k \in 1..4 |-> curve[k].equity] = <<10000 * Cent, 12000 * Cent, 9000 * Cent, 11000 * Cent>>

\* C20: _max_drawdown returns as absolute drawdown the maximum over the
\* points j of the highest equity among the points up to j minus the equity
\* at j, and as percentage that drop divided by the running peak at the point
\* where the drop is largest (the earliest such point); 0 and 0 for an empty
\* or non-decreasing curve, 30 and 25.0 for the curve [100, 120, 90, 110].
Drawdown ==
    DrawnDown =>
        /\ curve = <<>> => drawdown = <<0, 0>>
        /\ curve # <<>> =>
              LET worst == CHOOSE j \in WorstPoints : \A k \in WorstPoints : j <= k
              IN  /\ drawdown[1] = DropAt(worst)
                  /\ drawdown[2] = RoundDiv((DropAt(worst) \div Cent) * 10000,
                                            PeakUpto(worst) \div Cent)
        /\ NonDecreasing => drawdown = <<0, 0>>
        /\ DrawdownExample => drawdown = <<3000 * Cent, 2500>>

\* the example curve has been measured
DrawdownWitness ==
    /\ DrawnDown
    /\ DrawdownExample
    /\ drawdown = <<3000 * Cent, 2500>>

\* ------------------------------------------------------------------------
\* C21: wins, losses and the profit factor
\* ------------------------------------------------------------------------
\* run has returned a result
Returned == pc = "done" /\ ~IsNone(result)

\* the trades and the statistics of the result
result_trades == Val(result).trades
stats == Val(result).stats

\* the positions of the trades of the result that are wins (pnl > 0), of all
\* types or of one type
WinsAt == {k \in 1..Len(result_trades) : result_trades[k].pnl > 0}
LossesAt == {k \in 1..Len(result_trades) : ~(result_trades[k].pnl > 0)}
OfTypeAt(type) == {k \in 1..Len(result_trades) : result_trades[k].signal_type = type}

\* the sum of how_much[k] over the positions k of S
RECURSIVE SumOver(_, _)
SumOver(S, how_much) ==
    IF S = {} THEN 0
    ELSE LET k == CHOOSE k \in S : TRUE
         IN  how_much[k] + SumOver(S \ {k}, how_much)

pnls == [k \in 1..Len(result_trades) |-> result_trades[k].pnl]

\* profit_factor is grossProfit / grossLoss to two decimals, infinite (None)
\* when grossLoss is 0
ProfitFactorOf(S) ==
    LET gross_profit == SumOver(S \cap WinsAt, pnls)
        gross_loss == Abs(SumOver(S \cap LossesAt, pnls))
    IN  IF gross_loss = 0 THEN None ELSE Some(RoundDiv(gross_profit * 100, gross_loss))

\* the buckets of by_signal_type partition the trades: one bucket for each
\* type traded, with the counts, the gross profit and the gross loss (so the
\* profit factor) of the trades of its type
BucketsPartition ==
    LET buckets == stats.by_signal_type
        types == {result_trades[k].signal_type : k \in 1..Len(result_trades)}
    IN  /\ buckets = <<>> \/ DOMAIN buckets = types
        /\ buckets = <<>> => types = {}
        /\ \A type \in types :
              /\ buckets[type].trade_count = Cardinality(OfTypeAt(type))
              /\ buckets[type].win_count = Cardinality(OfTypeAt(type) \cap WinsAt)
              /\ buckets[type].gross_profit = SumOver(OfTypeAt(type) \cap WinsAt, pnls)
              /\ buckets[type].gross_loss = Abs(SumOver(OfTypeAt(type) \cap LossesAt, pnls))
        /\ SumOver(types, [type \in types |-> buckets[type].trade_count]) = stats.trade_count
        /\ SumOver(types, [type \in types |-> buckets[type].win_count]) = stats.win_count

\* the counts of the statistics are those of the trades
CountsOfTrades ==
    /\ stats.trade_count = Len(result_trades)
    /\ stats.win_count = Cardinality(WinsAt)
    /\ stats.win_count + Cardinality(LossesAt) = stats.trade_count

\* C21: for every trade list, the empty one included, the wins are the trades
\* with pnl > 0, the others are losses, profit_factor is grossProfit /
\* grossLoss and infinite whenever grossLoss is 0, and the buckets by signal
\* type add up to the aggregate counts.  (For the empty list _compute_stats
\* returns BacktestStats(), whose profit_factor is 0.0.)
StatsEveryTradeList ==
    Returned =>
        /\ CountsOfTrades
        /\ stats.profit_factor = ProfitFactorOf(1..Len(result_trades))
        /\ BucketsPartition

\* ------------------------------------------------------------------------
\* C22: points A and B of the 2B structure
\* ------------------------------------------------------------------------
\* the window of the last min(60, n - 1) closes: the bars WindowFrom .. n
WindowLen == Min2(60, Len(df) - 1)
WindowFrom == Len(df) - WindowLen + 1

\* the bar of point B: the first bar of the window whose close is the
\* minimum of the window
BarOfB ==
    CHOOSE b \in WindowFrom..Len(df) :
        /\ \A k \in WindowFrom..Len(df) : closes[b] <= closes[k]
        /\ \A k \in WindowFrom..(b - 1) : closes[b] < closes[k]

\* B lies in the first 5 or in the last 2 positions of the window
BAtEdge == BarOfB < WindowFrom + 5 \/ BarOfB > Len(df) - 2

\* the bars of the window before B whose close is strictly lower than the 2
\* closes before it and the 2 closes after it, all of them in the window
LowsBeforeB ==
    {a \in (WindowFrom + 2)..(BarOfB - 1) :
        /\ closes[a] < closes[a - 1]
        /\ closes[a] < closes[a - 2]
        /\ closes[a] < closes[a + 1]
        /\ closes[a] < closes[a + 2]}

\* the bar of point A: the most recent of them
BarOfA == MaxOf(LowsBeforeB)

\* the structure returned has B and A where the claim puts them
PointsOf(two_b) ==
    /\ ~BAtEdge
    /\ LowsBeforeB # {}
    /\ two_b.point_b_date = df[BarOfB].date
    /\ two_b.point_b_price = Round2(closes[BarOfB])
    /\ two_b.point_a_date = df[BarOfA].date
    /\ two_b.point_a_price = Round2(closes[BarOfA])

\* C22 as stated: on at least 30 bars B is the global minimum close of the
\* last min(60, n - 1) closes, there is no structure when B is in the first 5
\* or the last 2 positions of the window, A is the most recent close before B
\* lower than its 2 neighbours on each side, there is no structure without
\* such a close, and the pointB price of every structure returned is strictly
\* below its pointA price.
TwoBPointsStrictlyOrdered ==
    (Analysed /\ Len(df) >= 30) =>
        /\ (BAtEdge \/ LowsBeforeB = {}) => IsNone(analysis.two_b)
        /\ ~IsNone(analysis.two_b) =>
              /\ PointsOf(Val(analysis.two_b))
              /\ Val(analysis.two_b).point_b_price < Val(analysis.two_b).point_a_price

\* C22, amended: the same, but it is the close of B that is strictly below
\* the close of A; the prices of the structure are rounded to 2 decimals, and
\* the pointB price is below or equal to the pointA price.
TwoBPoints ==
    (Analysed /\ Len(df) >= 30) =>
        /\ (BAtEdge \/ LowsBeforeB = {}) => IsNone(analysis.two_b)
        /\ ~IsNone(analysis.two_b) =>
              /\ PointsOf(Val(analysis.two_b))
              /\ closes[BarOfB] < closes[BarOfA]
              /\ Val(analysis.two_b).point_b_price <= Val(analysis.two_b).point_a_price

\* a structure whose point A is the later of two lows before B
TwoBPointsWitness ==
    /\ Analysed
    /\ Len(df) >= 30
    /\ ~IsNone(analysis.two_b)
    /\ Cardinality(LowsBeforeB) >= 2
    /\ Val(analysis.two_b).point_a_date = df[BarOfA].date

\* ------------------------------------------------------------------------
\* C23: the recovery of the 2B structure
\* ------------------------------------------------------------------------
\* the bars after B whose close exceeds price
ClosesAbove(price) == {k \in (BarOfB + 1)..Len(df) : closes[k] > price}

\* the recovery of the structure two_b, point A's price being price: the
\* recovery price is the first close after B above it (to 2 decimals), the
\* structure is substantive iff 2 closes after B are above it, and the
\* deduction is validated iff the last close exceeds the close 20 bars before
RecoveryOf(two_b, price) ==
    /\ ClosesAbove(price) # {}
    /\ two_b.recovery_price = Round2(closes[MinOf(ClosesAbove(price))])
    /\ two_b.is_substantive = (Cardinality(ClosesAbove(price)) >= 2)
    /\ two_b.deduction_validated = (closes[Len(df)] > closes[Len(df) - 20])

\* the example, at a tenth of its prices: after a low of 9.90 and a lower low
\* of 9.60, two closes of 10.00 give pointA 9.90, pointB 9.60, substantive
RecoveryExample ==
    (source = Source("TwoB", 105, <<>>)) =>
        /\ ~IsNone(analysis.two_b)
        /\ Val(analysis.two_b).point_a_price = 990 * Cent
        /\ Val(analysis.two_b).point_b_price = 960 * Cent
        /\ Val(analysis.two_b).is_substantive

\* C23 as stated: the recovery of a structure returned is measured against
\* its pointA price: recoveryPrice is the first close after B above it,
\* isSubstantive holds iff at least 2 closes after B are above it, and
\* deductionValidated iff the last close exceeds the close 20 bars earlier.
RecoveryAbovePointAPrice ==
    (Analysed /\ Len(df) >= 30) =>
        /\ ~IsNone(analysis.two_b) =>
              RecoveryOf(Val(analysis.two_b), Val(analysis.two_b).point_a_price)
        /\ RecoveryExample

\* C23, amended: the recovery is measured against the close of point A, not
\* against the pointA price of the structure, which is that close rounded to
\* 2 decimals; there is no structure when no close after B exceeds the close
\* of point A.
Recovery ==
    (Analysed /\ Len(df) >= 30) =>
        /\ ~IsNone(analysis.two_b) =>
              RecoveryOf(Val(analysis.two_b), closes[BarOfA])
        /\ (~BAtEdge /\ LowsBeforeB # {} /\ ClosesAbove(closes[BarOfA]) = {}) =>
              IsNone(analysis.two_b)
        /\ RecoveryExample

\* a structure with two closes above point A after B, and one with a single
\* close above it
RecoveryWitness ==
    /\ Analysed
    /\ Len(df) >= 30
    /\ ~IsNone(analysis.two_b)
    /\ Val(analysis.two_b).is_substantive
    /\ Val(analysis.two_b).deduction_validated = FALSE
    /\ Cardinality(ClosesAbove(closes[BarOfA])) >= 2

\* ------------------------------------------------------------------------
\* C24: slopes and phases of the analysis
\* ------------------------------------------------------------------------
\* the slope of the average of period is computable at bar k: the window of
\* the average is complete at k and 5 bars earlier
Computable(k, period) == k - 5 >= period

\* the slope of the average of period at bar k, times 5 * period
SlopeTimes(k, period) ==
    SumRange(closes, k - period + 1, k) - SumRange(closes, k - 5 - period + 1, k - 5)

\* slope and phase of bar k are both undefined when the slope is not
\* computable, and otherwise the slope is reported (to 4 decimals) with a
\* phase, which is FLAT iff |slope| < 0.1
SlopeReported(k, period, slope, phase) ==
    IF Computable(k, period)
    THEN /\ slope = Some(RoundDiv(SlopeTimes(k, period), 5 * period))
         /\ ~IsNone(phase)
         /\ (Val(phase) = "FLAT") = (Abs(SlopeTimes(k, period)) < 1000 * 5 * period)
    ELSE IsNone(slope) /\ IsNone(phase)

\* C24: run_full_analysis reports the MA20 and MA60 slope and phase of a
\* bar as undefined exactly when the slope is not computable; a computable
\* slope, whatever its value, a slope of exactly 0 included, is reported as a
\* number with a phase, FLAT for |slope| < 0.1.  (The code tests the slope
\* for truth, and reports a slope of exactly 0 as undefined.)
SlopeDefinedWhenComputable ==
    Analysed =>
        \A k \in 1..Len(df) :
            /\ SlopeReported(k, 20, analysis.slopes[k].ma20_slope, analysis.slopes[k].ma20_phase)
            /\ SlopeReported(k, 60, analysis.slopes[k].ma60_slope, analysis.slopes[k].ma60_phase)

\* ------------------------------------------------------------------------
\* C25: bounded risk per trade
\* ------------------------------------------------------------------------
\* the capital when the k-th position was opened: the initial capital and
\* the pnl of the trades closed before
CapitalAtEntry(k) ==
    config.initial_capital + SumSeq([j \in 1..(k - 1) |-> trades[j].pnl])

\* riskPerTrade of the capital c, rounded down to 1/10000
RiskOf(c) == (c \div 100) * config.risk_per_trade + ((c % 100) * config.risk_per_trade) \div 100

\* the k-th position opened lies between its stop and its target and risks
\* at most riskPerTrade of the capital
BoundedPosition(k) ==
    LET pos == opened[k].pos
    IN  /\ pos.stop_loss < pos.entry_price
        /\ pos.entry_price < pos.target_price
        /\ pos.shares * (pos.entry_price - pos.stop_loss) <= RiskOf(CapitalAtEntry(k))

\* the k-th trade, closed at the stop, loses at most riskPerTrade of the
\* capital, and closed at the target, wins
BoundedTrade(k) ==
    /\ trades[k].exit_reason = "STOP_LOSS" =>
          trades[k].pnl < 0 /\ -trades[k].pnl <= RiskOf(CapitalAtEntry(k))
    /\ trades[k].exit_reason = "TARGET_HIT" => trades[k].pnl > 0

\* C25: every position opened has stopLoss < entryPrice < targetPrice and
\* shares x (entryPrice - stopLoss) <= capitalAtEntry x riskPerTrade; every
\* trade closed with STOP_LOSS has a negative pnl of at most riskPerTrade of
\* the capital at entry, and every trade closed with TARGET_HIT a positive
\* pnl; with and without the ATR stop.
BoundedRisk ==
    InRun =>
        /\ \A k \in 1..Len(opened) : BoundedPosition(k)
        /\ \A k \in 1..Len(trades) : BoundedTrade(k)
        /\ ~IsNone(position) => capital = CapitalAtEntry(Len(opened))

\* a run with the ATR stop in which a position was closed at its stop, for
\* a loss
BoundedRiskWitness ==
    /\ InRun
    /\ Truthy(config.stop_loss_atr_mult)
    /\ \E k \in 1..Len(trades) :
          /\ trades[k].exit_reason = "STOP_LOSS"
          /\ trades[k].pnl < 0
          /\ opened[k].pos.stop_loss # opened[k].pos.entry_price

\* ------------------------------------------------------------------------
\* C26: capital conservation
\* ------------------------------------------------------------------------
\* the last equity point of a curve
LastEquity(points) == points[Len(points)].equity

\* the initial capital and the pnl of the trades ts
Conserved(ts) == config.initial_capital + SumPnl(ts)

\* half a cent: the most that rounding a pnl to 2 decimals changes it
HalfCent == Cent \div 2

\* C26: at every processed bar that ends with no open position the equity
\* point is the initial capital plus the pnl of the trades closed so far;
\* the last equity point of a run is the initial capital plus the pnl of all
\* the trades of the result, the END_OF_DATA trade included, up to the
\* rounding of a pnl to 2 decimals; and stats.total_pnl is that sum.
CapitalConserved ==
    /\ (pc = "loop" /\ equity_curve # <<>> /\ IsNone(position)) =>
          LastEquity(equity_curve) = Conserved(trades)
    /\ (Returned /\ Val(result).equity_curve # <<>>) =>
          Abs(LastEquity(Val(result).equity_curve) - Conserved(result_trades)) <= HalfCent
    /\ Returned => stats.total_pnl = SumPnl(result_trades)

\* a result with a trade closed during the run at a loss or a gain and a
\* trade closed at the end of the data
CapitalConservedWitness ==
    /\ Returned
    /\ Len(result_trades) >= 2
    /\ result_trades[1].pnl # 0
    /\ result_trades[Len(result_trades)].exit_reason = "END_OF_DATA"
    /\ result_trades[Len(result_trades)].pnl # 0
    /\ LastEquity(Val(result).equity_curve) = Conserved(result_trades)

\* ------------------------------------------------------------------------
\* C27: no exit on the entry bar
\* ------------------------------------------------------------------------
\* the bar on which the k-th position was opened
EntryBar(k) == df[opened[k].idx + 1]

\* the bar on which the k-th position was opened would have closed it: its
\* low is at or below the stop, or its high at or above the target
EntryBarTouches(k) ==
    \/ EntryBar(k).low <= opened[k].pos.stop_loss
    \/ EntryBar(k).high >= opened[k].pos.target_price

\* C27: the dates of the bars increasing strictly, every trade closed with
\* STOP_LOSS, TRAILING_STOP, TARGET_HIT or TIME_EXIT has an exit date
\* strictly later than its entry date, even when the low of the entry bar is
\* at or below the stop or its high at or above the target; only an
\* END_OF_DATA trade can have an exit date equal to its entry date.
NoExitOnEntryBar ==
    InRun =>
        \A k \in 1..Len(trades) :
            /\ trades[k].entry_date = EntryBar(k).date
            /\ trades[k].exit_date >= trades[k].entry_date
            /\ trades[k].exit_reason # "END_OF_DATA" =>
                  trades[k].exit_date > trades[k].entry_date

\* a position opened on a bar that reaches its stop or its target and closed
\* at the stop or at the target on a later bar, followed by a position opened
\* on the last bar and closed there at the end of the data
NoExitOnEntryBarWitness ==
    /\ InRun
    /\ \E k \in 1..Len(trades) :
          /\ EntryBarTouches(k)
          /\ trades[k].exit_reason \in {"STOP_LOSS", "TARGET_HIT"}
          /\ trades[k].exit_date > trades[k].entry_date
    /\ \E k \in 1..Len(trades) :
          /\ trades[k].exit_reason = "END_OF_DATA"
          /\ trades[k].exit_date = trades[k].entry_date

\* ------------------------------------------------------------------------
\* C28: what starts a cooldown
\* ------------------------------------------------------------------------
\* the step processes a bar on which the open position is closed
IsExitBar == IsProcessBar /\ ~IsNone(position) /\ Len(trades') = Len(trades) + 1

\* the trade closed by the step
closed == trades'[Len(trades')]

\* the step evaluates an entry on its bar: _try_entry is called with the
\* capital of that moment, and what it returns is the position
EntryEvaluated ==
    /\ i \in tried'
    /\ cooldown_until' = None
    /\ position' = try_entry(config, df, i, capital')

\* the step of a bar on which a position is closed: a STOP_LOSS exit with
\* cooldownDays > 0 starts a cooldown and no entry is evaluated; after any
\* other exit no cooldown is set and an entry is evaluated on the same bar
CooldownOnlyAfterStop ==
    IsExitBar =>
        IF closed.exit_reason = "STOP_LOSS" /\ config.cooldown_days > 0
        THEN /\ cooldown_until' = Some(cur_bar.date + config.cooldown_days)
             /\ i \notin tried'
             /\ IsNone(position')
        ELSE EntryEvaluated

\* the step of a flat bar without a cooldown evaluates an entry
FlatBarEvaluated ==
    (IsProcessBar /\ IsNone(position) /\ IsNone(cooldown_until)) => EntryEvaluated

\* C28: only a STOP_LOSS exit with cooldownDays > 0 starts a cooldown; after
\* an exit with another reason, or with cooldownDays = 0, the cooldown is
\* left unset and an entry is evaluated on that same bar as on any flat bar;
\* and no cooldown is pending while a position is open.
CooldownStart ==
    /\ [][CooldownOnlyAfterStop /\ FlatBarEvaluated]_vars
    /\ [](InRun /\ ~IsNone(position) => IsNone(cooldown_until))

\* a position opened on the bar on which the previous one was closed, by an
\* exit that is not a STOP_LOSS exit, in a run with cooldownDays > 0
CooldownStartWitness ==
    /\ InRun
    /\ config.cooldown_days > 0
    /\ \E k \in 1..Len(trades) :
          /\ trades[k].exit_reason \in {"TRAILING_STOP", "TARGET_HIT", "TIME_EXIT"}
          /\ k + 1 <= Len(opened)
          /\ opened[k + 1].pos.entry_date = trades[k].exit_date

\* ------------------------------------------------------------------------
\* C29: the rate limiter
\* ------------------------------------------------------------------------
\* the callers inside acquire with the lock held: between two steps these
\* are the callers asleep
Sleeping == {c \in DOMAIN callers : callers[c].pc = "sleeping"}

\* the acquisitions of the last period seconds
Recent == {k \in 1..Len(acquired) : acquired[k] > clock - av_limiter.period}

\* the calls are serialized: at most one caller is past the lock, the lock
\* is held exactly while one is, and while it is held nobody else records a
\* timestamp
Serialized ==
    /\ Cardinality(Sleeping) <= 1
    /\ av_limiter.locked = (Sleeping # {})

SerializedStep ==
    (av_limiter.locked /\ av_limiter'.locked) =>
        /\ acquired' = acquired
        /\ av_limiter'.timestamps = av_limiter.timestamps

\* every max_calls + 1 acquisitions span at least the period: a window of
\* period seconds, its end excluded, holds at most max_calls of them
AtMostMaxCalls ==
    \A k \in 1..(Len(acquired) - av_limiter.max_calls) :
        acquired[k + av_limiter.max_calls] - acquired[k] >= av_limiter.period

\* a caller that takes the lock when max_calls acquisitions lie within the
\* last period seconds goes to sleep, until the oldest of them is period
\* seconds old, without a timestamp being recorded; otherwise its timestamp
\* is recorded at once
SleepsWhenFull ==
    \A c \in Callers :
        (callers[c].pc \in {"idle", "lock"} /\ callers'[c].pc \in {"sleeping", "done"}) =>
            IF Cardinality(Recent) >= av_limiter.max_calls
            THEN /\ callers'[c].pc = "sleeping"
                 /\ callers'[c].sleep_until =
                       Some(acquired[MinOf(Recent)] + av_limiter.period)
                 /\ acquired' = acquired
            ELSE /\ callers'[c].pc = "done"
                 /\ acquired' = Append(acquired, clock)

\* the timestamp of a caller that slept is recorded when it wakes, not
\* before the time it slept until
RecordedAfterSleep ==
    \A c \in Callers :
        (callers[c].pc = "sleeping" /\ callers'[c].pc # "sleeping") =>
            /\ clock >= Val(callers[c].sleep_until)
            /\ acquired' = Append(acquired, clock)

\* C29: the acquire() calls of concurrent callers are serialized by the
\* lock, at most max_calls of them complete within a window of period
\* seconds, and when max_calls acquisitions lie within the last period
\* seconds the next caller sleeps until the oldest is period seconds old
\* before its own timestamp is recorded.
RateLimited ==
    /\ [][SerializedStep /\ SleepsWhenFull /\ RecordedAfterSleep]_vars
    /\ [](Serialized /\ AtMostMaxCalls)

\* one more acquisition than max_calls has been recorded, a period after
\* the first one, by a caller that slept, and another caller sleeps
RateLimitedWitness ==
    /\ Len(acquired) > av_limiter.max_calls
    /\ av_limiter.waits >= 2
    /\ acquired[Len(acquired)] - acquired[1] >= av_limiter.period
    /\ \E c \in Callers : callers[c].pc = "sleeping"

\* ------------------------------------------------------------------------
\* C30: one scan at a time
\* ------------------------------------------------------------------------
\* the scans in progress: run_scan has started and has not reached its end
InProgress == {r \in 1..Len(scans.runs) : scans.runs[r].pc = "running"}

\* C30: at most one run_scan is in progress at any time, whether started by
\* trigger_scan or by the scheduled scanner, so that the counters of
\* scanner_state are updated by a single scan.  (The scheduled scanner
\* awaits run_scan without looking at scanner_state.running.)
OneScanAtATime == Cardinality(InProgress) <= 1

====
